---------------------------- MODULE Spec2Model ----------------------------
(***************************************************************************)
(* Break-aware playback scheduler of RetroViewer (Scripts/FeaturePlayer.py). *)
(*                                                                         *)
(* Two execution contexts are modelled: the Tk main thread (playlist       *)
(* set-up, key bindings with debounce_and_put, the deferred root.destroy)  *)
(* and the controller thread (controller(), with the helpers it calls).    *)
(* The controller is cut into steps at its blocking calls: the bounded     *)
(* command_queue.get of the outer loop and of the filler wait loop, each   *)
(* poll of _start_and_wait, and the sleep that follows a break firing.     *)
(* The VLC player is an external collaborator: its state, its media and    *)
(* its position are variables that the controller's calls and the          *)
(* engine's own progress change.                                           *)
(*                                                                         *)
(* The schedule projector of Scripts/StreamServer.py (generate_xmltv_guide *)
(* with get_video_duration) is a second program of the repository: one     *)
(* step of it is one iteration of the walk over a channel's videos.        *)
(*                                                                         *)
(* Times are integer milliseconds.  Optional values (Python None) are sets *)
(* with at most one element: {} is None.  List indices are 0-based as in   *)
(* the source; a TLA+ sequence s holds the element of index i at s[i+1].   *)
(***************************************************************************)
EXTENDS Integers, Sequences, FiniteSets, TLC

(***************************************************************************)
(* Bounds of the model                                                     *)
(***************************************************************************)
\* largest Now Playing queue explored (len(movie_paths))
NumMovies == 2
\* length of the ad playlist (len(video_files[0])) of the specifications of
\* the sequencer
NumAds == 2
\* the ads_per_break setting of SpecBreak
BreakAds == 3
\* largest ads_per_break setting explored
MaxAdsPerBreak == 2
\* the longest media file is MaxPosSteps * ResumeEpsilon ms long; the engine
\* position moves on the grid of ResumeEpsilon ms
MaxPosSteps == 3
\* the commands that may wait in the queue where the queue itself is studied
QueueRoom == 3
\* commands waiting in command_queue that the model explores
MaxQueue == 1
\* polls of _start_and_wait before it gives up (the source polls
\* START_RETRY_MS / 100 ms = 20 times; the model keeps the loop, shortened)
StartPolls == 2
\* longest raw break list of the persistence layer explored by SpecNorm
MaxRawBreaks == 4
\* number of videos of the database that the guide projects
NumVideos == 2
\* the horizon of the guide in seconds (the source projects 24 hours)
GuideHorizon == 240
\* programmes of one projection that the model explores
MaxProgrammes == 18

(***************************************************************************)
(* Program constants                                                       *)
(***************************************************************************)
\* resume_ms = max(start_ms, saved_pos_ms + 50)
ResumeEpsilon == 50
\* press_cooldown = 0.4 s, in units of 0.4 s
PressCooldown == 1
\* duration = 30.0, "or 30.0": the fallback duration of the guide, in seconds
FallbackSeconds == 30
\* duration_seconds = 180.0 of the except branch of the walk
ErrorSeconds == 180

Commands == {"next", "prev", "movie_next", "movie_prev", "shuffle_toggle", "reshuffle", "exit"}
\* the commands that reach the feature side of the controller
FeatureCommands == {"next", "movie_next", "movie_prev", "exit"}

\* the events of break_log that are no filler index
MissingAd == -1
SequencerCommand == -2

NoBreak == [cursor |-> 0, events |-> <<>>]

NoMedia == <<>>
MovieMedia(i) == <<"movie", i>>
AdMedia(name) == <<"ad", name>>

VARIABLES
    \* ---- persistence layer and file system (collaborators) ----
    db,               \* movie_paths with the database rows of each feature:
                      \* [start_time, end_time, breaks] as raw tokens, and the file's length
    playlist,         \* read_playlist(ad_playlist_name): the filler names, in order
    ads_per_break,    \* the ads_per_break setting
    \* ---- sequencer ----
    video_files, order, video_pos, shuffle_mode,
    \* ---- movie state ----
    movie_index, movie_media, breaks_ms, next_break_index, movie_state,
    \* ---- control state ----
    command_queue, since_press, mode, saved_pos_ms, ads_remaining,
    \* ---- playback engine ----
    player,           \* [state, media, time] of the shared vlc player
    \* ---- controller thread position ----
    pc, after, waited, resume_ms,
    \* ---- Tk root ----
    root_alive, destroy_pending,
    \* ---- history (observations, never read by the program) ----
    engine_callers,   \* the contexts that have called into the engine
    load_attempts,    \* the "try the next candidate" loops of the last step, each the
                      \* list of its load_movie calls: <<index, result>>
    record_fired,     \* whether this specification records fired and break_log
    fired,            \* <<movie index, breakpoint>> pairs that fired a break in this session
    fired_since_load, \* breakpoints that fired since the last load_movie
    break_log,        \* the ad break that runs or has just ended: video_pos when
                      \* it fired, and its events in order: the index into
                      \* video_files of a filler whose media was set, MissingAd
                      \* for a filler without file, SequencerCommand for a skip,
                      \* a step or a reshuffle
    last_step,        \* what the last step did, "none" after a step of another context
    seek_arg,         \* the argument of the set_time call of the last step, or -1
    \* ---- StreamServer.py ----
    videos,           \* what the projector reads: duration, the column videos.duration
                      \* by filename; playlists, the videos of each playlist;
                      \* on_disk, the filenames that exist in VIDEO_FOLDER
    guide,            \* generate_xmltv_guide: its position, duration_cache, the
                      \* index of the playlist in work, current_time, video_index,
                      \* and the programme elements emitted
    xmltv_cache,      \* the module's cache: content is None ({}) or the document
    response          \* the status and the body of the last response to GET /guide.xml

vars == <<db, playlist, ads_per_break,
          video_files, order, video_pos, shuffle_mode,
          movie_index, movie_media, breaks_ms, next_break_index, movie_state,
          command_queue, since_press, mode, saved_pos_ms, ads_remaining,
          player,
          pc, after, waited, resume_ms, root_alive, destroy_pending,
          engine_callers, load_attempts, record_fired, fired, fired_since_load,
          break_log, last_step, seek_arg, videos, guide, xmltv_cache, response>>

(***************************************************************************)
(* Python helpers                                                          *)
(***************************************************************************)
Max(a, b) == IF a >= b THEN a ELSE b

SetMin(S) == CHOOSE x \in S : \A y \in S : x <= y

\* sorted(set(xs)) of a set of integers: the ascending list of its elements
RECURSIVE SortedSet(_)
SortedSet(S) ==
    IF S = {} THEN <<>>
    ELSE LET m == SetMin(S) IN <<m>> \o SortedSet(S \ {m})

\* insertion of x into an ascending list, after the elements equal to it (stable)
RECURSIVE InsertSorted(_, _)
InsertSorted(x, s) ==
    IF s = <<>> THEN <<x>>
    ELSE IF x < Head(s) THEN <<x>> \o s
    ELSE <<Head(s)>> \o InsertSorted(x, Tail(s))

\* sorted(xs) of a list: ascending, duplicates kept
RECURSIVE Sorted(_)
Sorted(s) ==
    IF s = <<>> THEN <<>>
    ELSE InsertSorted(s[Len(s)], Sorted(SubSeq(s, 1, Len(s) - 1)))

Range(s) == {s[i] : i \in 1..Len(s)}

(***************************************************************************)
(* Timestamp normalizer                                                    *)
(*                                                                         *)
(* A time token is the list of its ":"-separated fields.  A field is       *)
(* [kind, ms]: kind "int" is an integer literal, "frac" a literal with a   *)
(* fractional part, "bad" a text that is no number; ms is the literal's    *)
(* value times 1000.  The empty (or blank) token is <<>>.  Kind "inf" is a *)
(* text that float() takes for an infinity ("inf", "1e400"): int() of such *)
(* a text raises ValueError and int() of its float raises OverflowError.   *)
(***************************************************************************)
IntField(f) == f.kind = "int"
FloatField(f) == f.kind \in {"int", "frac"}

\* _parse_time_token: the milliseconds of a token, or None
ParseTimeToken(tok) ==
    IF Len(tok) = 0 THEN {}
    ELSE IF Len(tok) = 1 THEN
        IF FloatField(tok[1]) THEN {tok[1].ms} ELSE {}
    ELSE IF Len(tok) = 3 THEN
        IF IntField(tok[1]) /\ IntField(tok[2]) /\ FloatField(tok[3])
        THEN {tok[1].ms * 3600 + tok[2].ms * 60 + tok[3].ms} ELSE {}
    ELSE IF Len(tok) = 2 THEN
        IF IntField(tok[1]) /\ FloatField(tok[2])
        THEN {tok[1].ms * 60 + tok[2].ms} ELSE {}
    ELSE {}

\* _parse_time_token raises OverflowError, which its "except ValueError"
\* does not catch: the seconds are an infinity and every int() before the
\* conversion of the sum has succeeded
ParseOverflows(tok) ==
    IF Len(tok) = 1 THEN tok[1].kind = "inf"
    ELSE IF Len(tok) = 3 THEN IntField(tok[1]) /\ IntField(tok[2]) /\ tok[3].kind = "inf"
    ELSE IF Len(tok) = 2 THEN IntField(tok[1]) /\ tok[2].kind = "inf"
    ELSE FALSE

\* load_timestamps_for raises: one of the tokens it parses does
LoadTimestampsRaises(rec) ==
    \/ ParseOverflows(rec.start_time)
    \/ ParseOverflows(rec.end_time)
    \/ \E i \in 1..Len(rec.breaks) : ParseOverflows(rec.breaks[i])

\* the loop of load_timestamps_for over get_commercial_breaks: the parsed
\* offsets, in database order, unparseable tokens left out
RECURSIVE ParsedBreaks(_)
ParsedBreaks(toks) ==
    IF toks = <<>> THEN <<>>
    ELSE LET ms == ParseTimeToken(Head(toks))
         IN (IF ms # {} THEN <<CHOOSE x \in ms : TRUE>> ELSE <<>>) \o ParsedBreaks(Tail(toks))

\* load_timestamps_for: start_ms (0 by default), end_ms (None by default)
\* and the breaks as sorted(set(...)).  A missing token is <<>>, which is
\* falsy in the source and parses to None here: both leave the default.
LoadTimestampsFor(rec) ==
    LET s == ParseTimeToken(rec.start_time)
        e == ParseTimeToken(rec.end_time)
    IN [start_ms |-> IF s # {} THEN CHOOSE x \in s : TRUE ELSE 0,
        end_ms   |-> e,
        breaks   |-> SortedSet(Range(ParsedBreaks(rec.breaks)))]

\* the filter with the window end taken as inclusive
KeepBreakUpToEnd(b, start_ms, end_ms) ==
    /\ ~(b < start_ms)
    /\ ~(\E e \in end_ms : b > e)

\* the filter of load_movie: keeps b unless b < start_ms or (end_ms is not None and b >= end_ms)
KeepBreak(b, start_ms, end_ms) ==
    /\ ~(b < start_ms)
    /\ ~(\E e \in end_ms : b >= e)

RECURSIVE FilterBreaks(_, _, _)
FilterBreaks(all_breaks, start_ms, end_ms) ==
    IF all_breaks = <<>> THEN <<>>
    ELSE (IF KeepBreak(Head(all_breaks), start_ms, end_ms) THEN <<Head(all_breaks)>> ELSE <<>>)
         \o FilterBreaks(Tail(all_breaks), start_ms, end_ms)

\* an installation that loses the first breakpoint kept
InstalledBreaksButFirst(ts) ==
    LET kept == Sorted(FilterBreaks(ts.breaks, ts.start_ms, ts.end_ms))
    IN IF kept = <<>> THEN <<>> ELSE Tail(kept)

\* breaks_ms as load_movie installs it: sorted(filtered_breaks)
InstalledBreaks(ts) == Sorted(FilterBreaks(ts.breaks, ts.start_ms, ts.end_ms))


(***************************************************************************)
(* Ad/filler sequencer.  The operators work on the value S of the          *)
(* controller-side variables (see Cur below) and return the new value.     *)
(***************************************************************************)
\* the permutations of 0 .. n-1, as lists: the outcomes of random.shuffle
Perms(n) ==
    {p \in [1..n -> 0..(n - 1)] : \A i, j \in 1..n : p[i] = p[j] => i = j}

Identity(n) == [i \in 1..n |-> i - 1]

\* list.index(x): the 0-based index of the first occurrence
IndexOf(s, x) == SetMin({i \in 1..Len(s) : s[i] = x}) - 1

\* a build_order that shuffles whatever the mode
BuildOrderAlwaysShuffles(S, perm) ==
    LET n == Len(S.video_files) IN
    IF n = 0 THEN [S EXCEPT !.order = <<>>, !.video_pos = 0]
    ELSE [S EXCEPT !.order = perm, !.video_pos = S.video_pos % Max(1, Len(perm))]

\* build_order, with perm the outcome of random.shuffle
BuildOrder(S, perm) ==
    LET n == Len(S.video_files) IN
    IF n = 0 THEN [S EXCEPT !.order = <<>>, !.video_pos = 0]
    ELSE LET o == IF S.shuffle_mode THEN perm ELSE Identity(n)
         IN [S EXCEPT !.order = o, !.video_pos = S.video_pos % Max(1, Len(o))]

\* current_video_name: None when there is no filler
CurrentVideoName(S) ==
    IF S.order = <<>> \/ S.video_files = <<>> THEN {}
    ELSE {S.video_files[S.order[S.video_pos + 1] + 1]}

\* a step forward that does not wrap
StepNextAdNoWrap(S) ==
    IF S.order = <<>> THEN S
    ELSE [S EXCEPT !.video_pos = S.video_pos + 1]

StepNextAd(S) ==
    IF S.order = <<>> THEN S
    ELSE [S EXCEPT !.video_pos = (S.video_pos + 1) % Len(S.order)]

\* a step back that does not wrap
StepPrevAdNoWrap(S) ==
    IF S.order = <<>> THEN S
    ELSE [S EXCEPT !.video_pos = S.video_pos - 1]

StepPrevAd(S) ==
    IF S.order = <<>> THEN S
    ELSE [S EXCEPT !.video_pos = (S.video_pos - 1) % Len(S.order)]

\* a reshuffle that leaves the cursor where build_order puts it
ReshuffleKeepsPos(S, perm) ==
    IF S.video_files = <<>> THEN S ELSE BuildOrder(S, perm)

ReshuffleCurrent(S, perm) ==
    IF S.video_files = <<>> THEN S
    ELSE LET cur_name == CurrentVideoName(S)
             S1 == BuildOrder(S, perm)
         IN IF \E c \in cur_name : c \in Range(S.video_files)
            THEN LET idx == IndexOf(S.video_files, CHOOSE c \in cur_name : TRUE)
                 IN IF idx \in Range(S1.order)
                    THEN [S1 EXCEPT !.video_pos = IndexOf(S1.order, idx)]
                    ELSE [S1 EXCEPT !.video_pos = 0]
            ELSE S1

(***************************************************************************)
(* Playback engine (vlc.MediaPlayer): the calls the controller makes.      *)
(* get_time() is the field time (-1 while nothing is playing), get_state() *)
(* the field state.                                                        *)
(***************************************************************************)
\* the length of the media the player holds: a feature's file has the length
\* of its row, a filler is one grid step long
MediaLength(m) ==
    IF m = NoMedia THEN 0
    ELSE IF m[1] = "movie" THEN db[m[2] + 1].length
    ELSE ResumeEpsilon

EngineStates == {"NothingSpecial", "Opening", "Playing", "Paused", "Stopped", "Ended", "Error"}
EndedStates == {"Ended", "Stopped", "Error"}

PlayerStop(p) == [p EXCEPT !.state = "Stopped", !.time = -1]
PlayerSetMedia(p, m) == [p EXCEPT !.media = m]
PlayerPlay(p) ==
    IF p.state = "Paused" THEN [p EXCEPT !.state = "Playing"]
    ELSE IF p.state = "Playing" \/ p.media = NoMedia THEN p
    ELSE [p EXCEPT !.state = "Opening", !.time = -1]
\* pause() toggles
PlayerPause(p) ==
    IF p.state = "Playing" THEN [p EXCEPT !.state = "Paused"]
    ELSE IF p.state = "Paused" THEN [p EXCEPT !.state = "Playing"]
    ELSE p
\* set_time(t): a seek past the end of the media lands on its end
PlayerSetTime(p, t) ==
    IF p.state \in {"Playing", "Paused"}
    THEN [p EXCEPT !.time = IF t > MediaLength(p.media) THEN MediaLength(p.media) ELSE t]
    ELSE p
PlayerResume(p) == IF p.state = "Paused" THEN [p EXCEPT !.state = "Playing"] ELSE p

\* an engine call made by the controller thread
ByController(S, p) ==
    [S EXCEPT !.player = p, !.engine_callers = @ \cup {"controller"}]


(***************************************************************************)
(* The controller-side variables as one value, and its write-back.         *)
(* files and ad_exists are inputs of a step: the feature files that exist  *)
(* on disk while it runs (os.path.exists in load_movie) and whether the    *)
(* filler's file exists (os.path.exists in _play_single_ad_by_name).  ok   *)
(* is the return value of the last call.  The observations of a step       *)
(* (load_attempts, last_step, seek_arg) start empty at every step.         *)
(***************************************************************************)
Cur ==
    [video_files |-> video_files, order |-> order, video_pos |-> video_pos, shuffle_mode |-> shuffle_mode,
     movie_index |-> movie_index, movie_media |-> movie_media, breaks_ms |-> breaks_ms,
     next_break_index |-> next_break_index, movie_state |-> movie_state,
     mode |-> mode, saved_pos_ms |-> saved_pos_ms, ads_remaining |-> ads_remaining,
     player |-> player, pc |-> pc, after |-> after, waited |-> waited,
     resume_ms |-> resume_ms, root_alive |-> root_alive, destroy_pending |-> destroy_pending,
     engine_callers |-> engine_callers, load_attempts |-> <<>>,
     fired |-> fired, fired_since_load |-> fired_since_load,
     break_log |-> IF pc = "loop" /\ mode = "MOVIE" THEN NoBreak ELSE break_log,
     last_step |-> "idle",
     seek_arg |-> -1, ok |-> TRUE, files |-> {}, ad_exists |-> TRUE, raised |-> {}]

Write(S) ==
    /\ video_files' = S.video_files /\ order' = S.order /\ video_pos' = S.video_pos /\ shuffle_mode' = S.shuffle_mode
    /\ movie_index' = S.movie_index /\ movie_media' = S.movie_media
    /\ breaks_ms' = S.breaks_ms /\ next_break_index' = S.next_break_index
    /\ movie_state' = S.movie_state /\ mode' = S.mode
    /\ saved_pos_ms' = S.saved_pos_ms /\ ads_remaining' = S.ads_remaining
    /\ player' = S.player /\ pc' = S.pc /\ after' = S.after /\ waited' = S.waited
    /\ resume_ms' = S.resume_ms /\ root_alive' = S.root_alive
    /\ destroy_pending' = S.destroy_pending /\ engine_callers' = S.engine_callers
    /\ load_attempts' = S.load_attempts /\ fired' = S.fired
    /\ fired_since_load' = S.fired_since_load /\ last_step' = S.last_step
    /\ break_log' = S.break_log
    /\ seek_arg' = S.seek_arg

\* an exception that controller() does not catch ends the controller
\* thread: raised keeps the value at the raise, which is what the thread
\* leaves behind whatever the operators applied after it compute
Raise(S) ==
    IF S.raised # {} THEN S
    ELSE [S EXCEPT !.raised = {[S EXCEPT !.pc = "crashed", !.last_step = "raised"]}]

Left(S) == IF S.raised = {} THEN S ELSE CHOOSE T \in S.raised : TRUE

Commit(S) == Write(Left(S))

\* the event e of the running break is observed
Logged(S, e) ==
    IF record_fired THEN [S EXCEPT !.break_log.events = Append(@, e)] ELSE S

(***************************************************************************)
(* Feature loading and the "try the next candidate" loops                  *)
(***************************************************************************)
\* a "try the next candidate" loop is entered
LoopBegins(S) == [S EXCEPT !.load_attempts = Append(@, <<>>)]

\* a load that leaves the break cursor where it is
InstallMovieKeepsCursor(S, idx, ts) ==
    [S EXCEPT !.ok = TRUE,
              !.load_attempts[Len(S.load_attempts)] = Append(@, <<idx, TRUE>>),
              !.movie_media = MovieMedia(idx),
              !.breaks_ms = InstalledBreaks(ts),
              !.movie_state = [start_ms |-> ts.start_ms, end_ms |-> ts.end_ms],
              !.fired_since_load = {}]

\* the success branch of load_movie, ts being load_timestamps_for(path)
InstallMovie(S, idx, ts) ==
    [S EXCEPT !.ok = TRUE,
              !.load_attempts[Len(S.load_attempts)] = Append(@, <<idx, TRUE>>),
              !.movie_media = MovieMedia(idx),
              !.breaks_ms = InstalledBreaks(ts),
              !.next_break_index = 0,
              !.movie_state = [start_ms |-> ts.start_ms, end_ms |-> ts.end_ms],
              !.fired_since_load = {}]

\* load_movie(idx); ok is its return value.  Every call is logged in the
\* loop that makes it.
LoadMovie(S, idx) ==
    IF idx \notin S.files
    THEN [S EXCEPT !.ok = FALSE,
                   !.load_attempts[Len(S.load_attempts)] = Append(@, <<idx, FALSE>>)]
    ELSE IF LoadTimestampsRaises(db[idx + 1])
    THEN Raise([ByController(S, PlayerSetMedia(PlayerStop(S.player), MovieMedia(idx)))
                EXCEPT !.movie_media = MovieMedia(idx), !.ok = FALSE])
    ELSE InstallMovie(ByController(S, PlayerSetMedia(PlayerStop(S.player), MovieMedia(idx))),
                      idx, LoadTimestampsFor(db[idx + 1]))

\* a loop bound that allows one more pass than there are candidates
MoreTriesInclusive(tries) == tries <= Len(db)

\* while tries < len(movie_paths)
MoreTries(tries) == tries < Len(db)

\* movie_index[0] = i; load_movie(movie_index[0])
LoadAt(S, i) == LoadMovie([S EXCEPT !.movie_index = i], i)

\* the loop of advance_to_next_movie (dir = 1) and advance_to_prev_movie
\* (dir = -1); AdvanceTried is the rest of an iteration after load_movie
RECURSIVE AdvanceLoop(_, _, _)
RECURSIVE AdvanceTried(_, _, _)
AdvanceLoop(S, tries, dir) ==
    IF MoreTries(tries)
    THEN AdvanceTried(LoadAt(S, (S.movie_index + dir) % Len(db)), tries, dir)
    ELSE [S EXCEPT !.ok = FALSE]

AdvanceTried(S, tries, dir) ==
    IF S.ok THEN S ELSE AdvanceLoop(S, tries + 1, dir)

AdvanceToNextMovie(S) ==
    IF Len(db) = 0 THEN [S EXCEPT !.ok = FALSE] ELSE AdvanceLoop(LoopBegins(S), 0, 1)

\* a step back that goes forward
AdvanceToPrevForward(S) == AdvanceToNextMovie(S)

AdvanceToPrevMovie(S) ==
    IF Len(db) = 0 THEN [S EXCEPT !.ok = FALSE] ELSE AdvanceLoop(LoopBegins(S), 0, -1)

\* the first loop of controller(): the current index first, then the next
\* ones; InitialTried is the rest of an iteration after load_movie
RECURSIVE InitialLoop(_, _)
RECURSIVE InitialTried(_, _)
InitialLoop(S, tries) ==
    IF MoreTries(tries)
    THEN InitialTried(LoadMovie(S, S.movie_index), tries)
    ELSE S

InitialTried(S, tries) ==
    IF S.ok THEN S
    ELSE InitialLoop([S EXCEPT !.movie_index = (S.movie_index + 1) % Len(db)], tries + 1)

(***************************************************************************)
(* Pieces of controller()                                                  *)
(***************************************************************************)
\* the call of _start_and_wait: player.play(), then the polls (StartPoll)
CallStartAndWait(S, site) ==
    [ByController(S, PlayerPlay(S.player)) EXCEPT !.pc = "start_wait", !.after = site, !.waited = 0]

\* player.set_time(t); player.set_pause(0)
SetTimeAndResume(S, t) ==
    [ByController(S, PlayerResume(PlayerSetTime(S.player, t))) EXCEPT !.seek_arg = t]

\* if movie_state["start_ms"] > 0: set_time(start_ms); set_pause(0)
SeekToStart(S) ==
    IF S.movie_state.start_ms > 0
    THEN SetTimeAndResume(S, S.movie_state.start_ms)
    ELSE S

\* "No playable movies remain": player.stop(); root.after(0, root.destroy); return
StopAndReturn(S) ==
    [ByController(S, PlayerStop(S.player)) EXCEPT
        !.destroy_pending = TRUE, !.pc = "stopped", !.last_step = "stop"]

\* after advance_to_next_movie() in the MOVIE and ADS blocks: stop and
\* return if it failed, else start the new feature
StartOrStop(S) ==
    IF ~S.ok THEN StopAndReturn(S)
    ELSE CallStartAndWait([S EXCEPT !.last_step = "advance"], "advance")

\* if not advance_to_next_movie(): stop and return; else start the new feature
AdvanceOrStop(S) == StartOrStop(AdvanceToNextMovie(S))

\* natural end-of-file: end_ms is None and state in (Ended, Stopped, Error);
\* otherwise control reaches the ADS block or the end of the loop body
NaturalEndCheck(S) ==
    IF S.movie_state.end_ms = {} /\ S.player.state \in EndedStates
    THEN AdvanceOrStop(S)
    ELSE [S EXCEPT !.pc = IF S.mode = "ADS" THEN "ads" ELSE "loop"]

\* a break check that needs the position to be past the breakpoint
BreakDuePast(S, cur_ms) ==
    /\ S.next_break_index < Len(S.breaks_ms)
    /\ cur_ms > S.breaks_ms[S.next_break_index + 1]

\* the break check: cursor below the list and cur_ms >= breaks_ms[cursor]
BreakDue(S, cur_ms) ==
    /\ S.next_break_index < Len(S.breaks_ms)
    /\ cur_ms >= S.breaks_ms[S.next_break_index + 1]

\* a break start that leaves the cursor where it is
StartAdBreakSameCursor(S, cur_ms, b) ==
    [S EXCEPT !.saved_pos_ms = cur_ms,
              !.mode = "ADS",
              !.ads_remaining = ads_per_break,
              !.fired = IF record_fired THEN @ \cup {<<S.movie_index, b>>} ELSE @,
              !.fired_since_load = @ \cup {b},
              !.break_log = IF record_fired
                            THEN [cursor |-> S.video_pos, events |-> <<>>] ELSE @,
              !.last_step = "fire"]

\* the assignments of "Start ad break", b being the breakpoint at the cursor
StartAdBreak(S, cur_ms, b) ==
    [S EXCEPT !.saved_pos_ms = cur_ms,
              !.next_break_index = S.next_break_index + 1,
              !.mode = "ADS",
              !.ads_remaining = ads_per_break,
              !.fired = IF record_fired THEN @ \cup {<<S.movie_index, b>>} ELSE @,
              !.fired_since_load = @ \cup {b},
              !.break_log = IF record_fired
                            THEN [cursor |-> S.video_pos, events |-> <<>>] ELSE @,
              !.last_step = "fire"]

\* a break start that consumes every breakpoint the position has passed
FireBreakAllPassed(S, cur_ms) ==
    [ByController(StartAdBreak(S, cur_ms, S.breaks_ms[S.next_break_index + 1]),
                  PlayerPause(S.player))
     EXCEPT !.pc = "break_sleep",
            !.next_break_index =
                Cardinality({i \in 1..Len(S.breaks_ms) : S.breaks_ms[i] <= cur_ms})]

\* "Start ad break", up to time.sleep(0.25)
FireBreak(S, cur_ms) ==
    [ByController(StartAdBreak(S, cur_ms, S.breaks_ms[S.next_break_index + 1]),
                  PlayerPause(S.player))
     EXCEPT !.pc = "break_sleep"]

\* a MOVIE block that looks for a break before it looks at the window end
MovieBlockBreakFirst(S) ==
    IF BreakDue(S, S.player.time) THEN FireBreak(S, S.player.time)
    ELSE IF \E e \in S.movie_state.end_ms : S.player.time >= e THEN AdvanceOrStop(S)
    ELSE NaturalEndCheck(S)

\* if state["mode"] == "MOVIE": the forced end, the break check, the natural end
MovieBlock(S) ==
    IF \E e \in S.movie_state.end_ms : S.player.time >= e THEN AdvanceOrStop(S)
    ELSE IF BreakDue(S, S.player.time) THEN FireBreak(S, S.player.time)
    ELSE NaturalEndCheck(S)

\* the rest of an iteration of the outer loop after the command handling
ModeBlocks(S) ==
    IF S.mode = "MOVIE" THEN MovieBlock(S) ELSE [S EXCEPT !.pc = "ads"]

\* a return from the filler that does not move the cursor
AdReturnSameAd(S, what) ==
    [S EXCEPT !.ads_remaining = S.ads_remaining - 1, !.pc = "ads", !.last_step = what]

\* after _play_single_ad_by_name returns: step_next_ad(); ads_remaining -= 1
AdReturn(S, what) ==
    [StepNextAd(S) EXCEPT !.ads_remaining = S.ads_remaining - 1, !.pc = "ads", !.last_step = what]

\* a resume position without the 50 ms
ResumeMsAtSaved(S) == Max(S.movie_state.start_ms, S.saved_pos_ms)

\* resume_ms = max(movie_state["start_ms"], saved_pos_ms[0] + 50)
ResumeMs(S) == Max(S.movie_state.start_ms, S.saved_pos_ms + ResumeEpsilon)

\* the resume with resume_ms = r: advance if r is at or beyond the end,
\* else start the feature again
ResumeAt(S, r) ==
    IF \E e \in S.movie_state.end_ms : r >= e
    THEN AdvanceOrStop(S)
    ELSE CallStartAndWait([S EXCEPT !.resume_ms = r, !.last_step = "resume"], "resume")

\* after player.stop(): swap back to the movie media, if there is one
SwapBack(S) ==
    IF S.movie_media = NoMedia THEN [S EXCEPT !.pc = "loop"]
    ELSE ResumeAt(ByController(S, PlayerSetMedia(S.player, S.movie_media)), ResumeMs(S))

\* "Finished ads -> resume movie"
ResumeBlock(S) ==
    SwapBack(ByController([S EXCEPT !.mode = "MOVIE"], PlayerStop(S.player)))

\* a missing filler that is left without a step of the cursor
PlaySingleAdKeepsCursor(S, name) ==
    IF name = {} \/ ~S.ad_exists
    THEN AdReturnSameAd(Logged(S, MissingAd), "ad_missing")
    ELSE CallStartAndWait(
            [ByController(Logged(S, S.order[S.video_pos + 1]),
                          PlayerSetMedia(PlayerStop(S.player),
                                         AdMedia(CHOOSE c \in name : TRUE)))
             EXCEPT !.last_step = "ad_load"], "ad")

\* _play_single_ad_by_name(name) up to its wait loop
PlaySingleAd(S, name) ==
    IF name = {} \/ ~S.ad_exists
    THEN AdReturn(Logged(S, MissingAd), "ad_missing")
    ELSE CallStartAndWait(
            [ByController(Logged(S, S.order[S.video_pos + 1]),
                          PlayerSetMedia(PlayerStop(S.player),
                                         AdMedia(CHOOSE c \in name : TRUE)))
             EXCEPT !.last_step = "ad_load"], "ad")

\* one iteration of "while ads_remaining[0] > 0", up to the wait loop
AdsBlock(S) ==
    IF S.ads_remaining > 0 /\ ~(S.order = <<>> \/ S.video_files = <<>>)
    THEN PlaySingleAd(S, CurrentVideoName(S))
    ELSE ResumeBlock(S)

\* the return of _start_and_wait for a filler: the wait loop, or the return
\* of _play_single_ad_by_name
AfterAdStart(S, started) ==
    IF started THEN [S EXCEPT !.pc = "ad_wait", !.last_step = "ad_playing"]
    ELSE AdReturn(S, "ad_failed")

\* the return of _start_and_wait(player, "MovieResume")
AfterResumeStart(S, started, r) ==
    IF started
    THEN [SetTimeAndResume(S, r) EXCEPT !.pc = "loop", !.last_step = "resumed"]
    ELSE [S EXCEPT !.pc = "loop", !.last_step = "start_failed"]

\* the return of _start_and_wait(player, "Movie")
AfterMovieStart(S, started) ==
    IF started THEN [SeekToStart(S) EXCEPT !.pc = "loop", !.last_step = "started"]
    ELSE [S EXCEPT !.pc = "loop", !.last_step = "start_failed"]

\* what follows the return of _start_and_wait at the call site site, S
\* being the state with the locals of the call dropped
AtSite(S, site, started, r) ==
    IF site = "ad" THEN AfterAdStart(S, started)
    ELSE IF site = "resume" THEN AfterResumeStart(S, started, r)
    ELSE IF site = "cmd" THEN ModeBlocks(AfterMovieStart(S, started))
    ELSE AfterMovieStart(S, started)

AfterStart(S, started) ==
    AtSite([S EXCEPT !.waited = 0, !.after = "none", !.resume_ms = 0],
           S.after, started, S.resume_ms)

\* the "exit" command: player.stop(); root.destroy(); sys.exit(0)
DoExit(S) ==
    [ByController(S, PlayerStop(S.player)) EXCEPT
        !.root_alive = FALSE, !.pc = "stopped", !.last_step = "exit"]

\* a shuffle toggle that stops what is playing
ToggleShuffleStops(S, perm) ==
    ReshuffleCurrent(ByController([S EXCEPT !.shuffle_mode = ~S.shuffle_mode,
                                            !.last_step = "shuffle_toggle"],
                                  PlayerStop(S.player)), perm)

\* shuffle_toggle and reshuffle, the same in both loops
ToggleShuffle(S, perm) ==
    ReshuffleCurrent(Logged([S EXCEPT !.shuffle_mode = ~S.shuffle_mode,
                                      !.last_step = "shuffle_toggle"],
                            SequencerCommand), perm)

\* the reshuffle command
Reshuffle(S, perm) == ReshuffleCurrent(Logged(S, SequencerCommand), perm)

\* movie_next / movie_prev after the advance: start the feature, or stop the
\* player, schedule root.destroy and go on with the iteration
AfterMovieCommand(S) ==
    IF S.ok
    THEN CallStartAndWait([S EXCEPT !.mode = "MOVIE", !.last_step = "advance"], "cmd")
    ELSE ModeBlocks([ByController(S, PlayerStop(S.player)) EXCEPT
                        !.destroy_pending = TRUE, !.last_step = "no_movie"])

\* player.stop(), then advance_to_next_movie() or advance_to_prev_movie()
StopAndAdvance(S, dir) ==
    IF dir = 1 THEN AdvanceToNextMovie(S) ELSE AdvanceToPrevMovie(S)

\* movie_next / movie_prev of the outer loop
MovieCommand(S, dir) ==
    AfterMovieCommand(StopAndAdvance(ByController(S, PlayerStop(S.player)), dir))

\* the commands of the outer loop that end neither the thread nor the feature
PlainCommand(S, cmd, perm) ==
    IF cmd = "shuffle_toggle" THEN ToggleShuffle(S, perm)
    ELSE IF cmd = "reshuffle" THEN Reshuffle(S, perm)
    ELSE IF cmd = "next" /\ S.mode = "ADS"
    THEN StepNextAd(ByController(Logged(S, SequencerCommand), PlayerStop(S.player)))
    ELSE IF cmd = "prev" /\ S.mode = "ADS"
    THEN StepPrevAd(ByController(Logged(S, SequencerCommand), PlayerStop(S.player)))
    ELSE S

\* the command handling of the outer loop, then the rest of the iteration
OuterCommand(S, cmd, perm) ==
    IF cmd = "exit" THEN DoExit(S)
    ELSE IF cmd = "movie_next" THEN MovieCommand(S, 1)
    ELSE IF cmd = "movie_prev" THEN MovieCommand(S, -1)
    ELSE ModeBlocks(PlainCommand(S, cmd, perm))

\* a wait loop that ignores the exit command
AdCommandNoExit(S, cmd, perm) ==
    IF cmd = "next"
    THEN AdReturn(ByController(Logged(S, SequencerCommand), PlayerStop(S.player)), "ad_skipped")
    ELSE IF cmd = "shuffle_toggle" THEN ToggleShuffle(S, perm)
    ELSE IF cmd = "reshuffle" THEN Reshuffle(S, perm)
    ELSE [S EXCEPT !.last_step = "ad_ignored"]

\* a skip that ends the whole break
AdCommandEndsBreak(S, cmd, perm) ==
    IF cmd = "next"
    THEN [AdReturn(ByController(Logged(S, SequencerCommand), PlayerStop(S.player)), "ad_skipped")
          EXCEPT !.ads_remaining = 0]
    ELSE IF cmd = "exit" THEN DoExit(S)
    ELSE IF cmd = "shuffle_toggle" THEN ToggleShuffle(S, perm)
    ELSE IF cmd = "reshuffle" THEN Reshuffle(S, perm)
    ELSE [S EXCEPT !.last_step = "ad_ignored"]

\* a wait loop that acts on movie_next
AdCommandTakesQueueNext(S, cmd, perm) ==
    IF cmd = "next"
    THEN AdReturn(ByController(Logged(S, SequencerCommand), PlayerStop(S.player)), "ad_skipped")
    ELSE IF cmd = "exit" THEN DoExit(S)
    ELSE IF cmd = "shuffle_toggle" THEN ToggleShuffle(S, perm)
    ELSE IF cmd = "reshuffle" THEN Reshuffle(S, perm)
    ELSE IF cmd = "movie_next" THEN MovieCommand(S, 1)
    ELSE [S EXCEPT !.last_step = "ad_ignored"]

\* the command handling of the wait loop of _play_single_ad_by_name
AdCommand(S, cmd, perm) ==
    IF cmd = "next"
    THEN AdReturn(ByController(Logged(S, SequencerCommand), PlayerStop(S.player)), "ad_skipped")
    ELSE IF cmd = "exit" THEN DoExit(S)
    ELSE IF cmd = "shuffle_toggle" THEN ToggleShuffle(S, perm)
    ELSE IF cmd = "reshuffle" THEN Reshuffle(S, perm)
    ELSE [S EXCEPT !.last_step = "ad_ignored"]

(***************************************************************************)
(* Initial states                                                          *)
(***************************************************************************)
NoToken == <<>>
\* the token of a plain number of seconds, given in ms
Tok(ms) == <<[kind |-> "frac", ms |-> ms]>>
\* a token that is no number
BadToken == <<[kind |-> "bad", ms |-> 0]>>
\* the k-th position of the grid
Pos(k) == k * ResumeEpsilon

\* a feature without playback window, with one breakpoint
RowOpen ==
    [start_time |-> NoToken, end_time |-> NoToken,
     breaks |-> <<Tok(Pos(1))>>, length |-> Pos(MaxPosSteps - 1)]

\* a feature with a playback window and two breakpoints, stored unordered,
\* with a duplicate and an unparseable token
RowWindow ==
    [start_time |-> Tok(Pos(1)), end_time |-> Tok(Pos(MaxPosSteps)),
     breaks |-> <<Tok(Pos(2)), BadToken, Tok(Pos(1)), Tok(Pos(2))>>,
     length |-> Pos(MaxPosSteps)]

\* a feature without playback window, with two breakpoints
RowTwoBreaks ==
    [start_time |-> NoToken, end_time |-> NoToken,
     breaks |-> <<Tok(Pos(1)), Tok(Pos(2))>>, length |-> Pos(MaxPosSteps)]

\* a Now Playing queue of n features
Features(n) == [i \in 1..n |-> IF i % 2 = 1 THEN RowOpen ELSE RowWindow]

\* the state when play_movie_with_commercial_breaks is entered with a
\* non-empty movie_paths; last_press_time = 0.0 is long ago
InitPlayerWith(dbs, settings, shuffles, lists, recs) ==
    /\ db \in dbs
    /\ ads_per_break \in settings
    /\ shuffle_mode \in shuffles
    /\ playlist \in lists
    /\ record_fired \in recs
    /\ video_files = <<>> /\ order = <<>> /\ video_pos = 0
    /\ movie_index = 0 /\ movie_media = NoMedia /\ breaks_ms = <<>>
    /\ next_break_index = 0
    /\ movie_state = [start_ms |-> 0, end_ms |-> {}]
    /\ command_queue = <<>> /\ since_press = PressCooldown + 1
    /\ mode = "MOVIE" /\ saved_pos_ms = 0 /\ ads_remaining = 0
    /\ player = [state |-> "NothingSpecial", media |-> NoMedia, time |-> -1]
    /\ pc = "setup" /\ after = "none" /\ waited = 0 /\ resume_ms = 0
    /\ root_alive = TRUE /\ destroy_pending = FALSE
    /\ engine_callers = {} /\ load_attempts = <<>>
    /\ fired = {} /\ fired_since_load = {}
    /\ break_log = NoBreak
    /\ last_step = "none" /\ seek_arg = -1

\* StreamServer.py is another process: here it has nothing to project
NoVideos == [duration |-> <<>>, playlists |-> <<>>, on_disk |-> {}]

\* generate_xmltv_guide has not been called
GuideIdle ==
    [pc |-> "idle", duration_cache |-> <<>>, playlist |-> 0,
     current_time |-> 0, video_index |-> 0, programmes |-> <<>>]

\* no request was answered
NoResponse == [status |-> 0, body |-> <<>>]

\* xmltv_cache as the module creates it
NoCache == [content |-> {}]

InitWith(dbs, settings, shuffles, lists, recs) ==
    /\ InitPlayerWith(dbs, settings, shuffles, lists, recs)
    /\ videos = NoVideos
    /\ guide = GuideIdle
    /\ xmltv_cache = NoCache
    /\ response = NoResponse

\* the ads_per_break settings: int(setting) is not range-checked
Settings == {-1, 0, MaxAdsPerBreak}

\* the ad playlists: an empty one and one filler
Playlists == {<<>>, <<1>>}

Init == InitWith({Features(NumMovies)}, Settings, {FALSE}, Playlists, {FALSE})

(***************************************************************************)
(* Main thread                                                             *)
(***************************************************************************)
\* the outcomes of random.shuffle that matter: none unless shuffle is on
PermChoices(on) ==
    IF on THEN Perms(Len(playlist)) ELSE {Identity(Len(playlist))}

\* load_current_playlist, files being what read_playlist returns: an empty
\* playlist leaves the sequencer as it is
LoadPlaylist(S, files, perm) ==
    IF files = <<>> THEN [S EXCEPT !.ok = FALSE]
    ELSE [BuildOrder([S EXCEPT !.video_files = files, !.video_pos = 0], perm)
          EXCEPT !.ok = TRUE]

LoadCurrentPlaylist(S, perm) == LoadPlaylist(S, playlist, perm)

\* play_movie_with_commercial_breaks up to the start of the controller
\* thread: returns before the window is used when the playlist is empty
Setup ==
    /\ pc = "setup"
    /\ \E perm \in PermChoices(shuffle_mode) :
          LET S == LoadCurrentPlaylist(Cur, perm)
          IN IF S.ok
             THEN Commit([S EXCEPT !.pc = "init", !.last_step = "setup"])
             ELSE Commit([S EXCEPT !.pc = "stopped", !.root_alive = FALSE, !.last_step = "setup"])
    /\ UNCHANGED <<db, playlist, ads_per_break, command_queue, since_press, record_fired, videos, guide, xmltv_cache, response>>

\* a debounce_and_put that puts every event
AlwaysPut(cmd) ==
    /\ since_press' = 0
    /\ command_queue' = Append(command_queue, cmd)

\* a debounce_and_put whose dropped events restart the cooldown
DebounceRestarts(cmd) ==
    IF since_press > PressCooldown
    THEN /\ since_press' = 0
         /\ command_queue' = Append(command_queue, cmd)
    ELSE /\ since_press' = 0
         /\ UNCHANGED command_queue

\* debounce_and_put(cmd): since_press is now - last_press_time[0]
DebounceAndPut(cmd) ==
    IF since_press > PressCooldown
    THEN /\ since_press' = 0
         /\ command_queue' = Append(command_queue, cmd)
    ELSE UNCHANGED <<command_queue, since_press>>

controller_vars ==
    <<video_files, order, video_pos, shuffle_mode,
      movie_index, movie_media, breaks_ms, next_break_index, movie_state,
      mode, saved_pos_ms, ads_remaining,
      pc, after, waited, resume_ms, root_alive, destroy_pending,
      fired, fired_since_load, break_log>>

\* a key handler that stops the engine itself
HandlerStopsEngine ==
    /\ player' = PlayerStop(player)
    /\ engine_callers' = engine_callers \cup {"main"}

\* what the key handlers (next_ad ... exit_app) do to the engine: nothing,
\* they only call debounce_and_put
HandlerEngineCalls == UNCHANGED <<player, engine_callers>>

\* a step of another context than the controller: nothing to observe
NoObservation ==
    /\ load_attempts' = <<>>
    /\ last_step' = "none"
    /\ seek_arg' = -1

\* one of the bound keys of K is pressed while the main loop runs
\* a key event with a command of K, while fewer than room commands wait:
\* command_queue = queue.Queue() has no maxsize, room bounds the model
KeyEventUpTo(K, room) ==
    /\ root_alive /\ pc # "setup"
    /\ Len(command_queue) < room
    /\ \E cmd \in K : DebounceAndPut(cmd)
    /\ HandlerEngineCalls
    /\ NoObservation
    /\ UNCHANGED <<db, playlist, ads_per_break, record_fired, videos, guide, xmltv_cache, response>>
    /\ UNCHANGED controller_vars

KeyEvent(K) == KeyEventUpTo(K, MaxQueue)

\* the clock moves by one unit of press_cooldown; anything beyond the
\* cooldown is the same to debounce_and_put
TimePasses ==
    /\ root_alive /\ pc \notin {"setup", "stopped"}
    /\ since_press <= PressCooldown
    /\ since_press' = since_press + 1
    /\ NoObservation
    /\ UNCHANGED <<db, playlist, ads_per_break, record_fired, videos, guide, xmltv_cache, response, command_queue>>
    /\ UNCHANGED <<player, engine_callers>>
    /\ UNCHANGED controller_vars

\* the main loop runs root.destroy scheduled by root.after(0, ...); the
\* process ends with the main loop, the controller being a daemon thread
MainloopDestroy ==
    /\ root_alive /\ destroy_pending
    /\ root_alive' = FALSE /\ destroy_pending' = FALSE /\ pc' = "stopped"
    /\ load_attempts' = <<>> /\ last_step' = "destroyed" /\ seek_arg' = -1
    /\ UNCHANGED <<db, playlist, ads_per_break, record_fired, videos, guide, xmltv_cache, response, command_queue, since_press>>
    /\ UNCHANGED <<video_files, order, video_pos, shuffle_mode,
                   movie_index, movie_media, breaks_ms, next_break_index, movie_state,
                   mode, saved_pos_ms, ads_remaining, player, after, waited, resume_ms,
                   engine_callers, fired, fired_since_load, break_log>>

(***************************************************************************)
(* Controller thread                                                       *)
(***************************************************************************)
shared_rest == <<db, playlist, ads_per_break, record_fired, videos, guide, xmltv_cache, response, since_press>>

\* the sets of feature files that may exist while a step runs
FileChoices == SUBSET (0..(Len(db) - 1))

\* the files on disk matter only to a step that calls load_movie: S0 is the
\* outcome of the step when no file exists
FilesFor(S0) == IF S0.load_attempts # <<>> THEN FileChoices \ {{}} ELSE {}

\* after the first loop of controller(): return if nothing was loaded,
\* else start the feature
AfterInitialLoop(S) ==
    IF S.movie_media = NoMedia
    THEN [S EXCEPT !.destroy_pending = TRUE, !.pc = "stopped", !.last_step = "stop"]
    ELSE CallStartAndWait([S EXCEPT !.last_step = "initial"], "initial")

\* controller() up to the first _start_and_wait
ControllerInit ==
    /\ pc = "init"
    /\ \E files \in FileChoices :
          Commit(AfterInitialLoop(InitialLoop(LoopBegins([Cur EXCEPT !.files = files]), 0)))
    /\ UNCHANGED shared_rest /\ UNCHANGED command_queue

\* one iteration of the loop of _start_and_wait
PollOnce(S) ==
    IF S.player.state = "Playing" THEN AfterStart(S, TRUE)
    ELSE IF S.waited + 1 >= StartPolls THEN AfterStart(S, FALSE)
    ELSE [S EXCEPT !.waited = S.waited + 1, !.last_step = "poll"]

\* one poll of _start_and_wait, and what follows its return
StartPoll ==
    /\ pc = "start_wait"
    /\ LET Step(files) == PollOnce([Cur EXCEPT !.files = files])
       IN \E S0 \in {Step({})} :
             \/ Commit(S0)
             \/ \E files \in FilesFor(S0) : Commit(Step(files))
    /\ UNCHANGED shared_rest /\ UNCHANGED command_queue

\* an outer loop that takes the command accepted last
OuterLoopTakesLast ==
    /\ pc = "loop"
    /\ IF command_queue = <<>>
       THEN /\ LET Step(files) == ModeBlocks([Cur EXCEPT !.files = files])
               IN \E S0 \in {Step({})} :
                     \/ Commit(S0)
                     \/ \E files \in FilesFor(S0) : Commit(Step(files))
            /\ UNCHANGED command_queue
       ELSE /\ command_queue' = SubSeq(command_queue, 1, Len(command_queue) - 1)
            /\ \E perm \in PermChoices(command_queue[Len(command_queue)] \in {"shuffle_toggle", "reshuffle"}) :
                  LET Step(files) ==
                          OuterCommand([Cur EXCEPT !.files = files],
                                       command_queue[Len(command_queue)], perm)
                  IN \E S0 \in {Step({})} :
                        \/ Commit(S0)
                        \/ \E files \in FilesFor(S0) : Commit(Step(files))
    /\ UNCHANGED shared_rest

\* one iteration of the outer loop: command_queue.get(timeout=CHECK_INTERVAL),
\* the command handling, the MOVIE block up to the next blocking call
OuterLoop ==
    /\ pc = "loop"
    /\ IF command_queue = <<>>
       THEN /\ LET Step(files) == ModeBlocks([Cur EXCEPT !.files = files])
               IN \E S0 \in {Step({})} :
                     \/ Commit(S0)
                     \/ \E files \in FilesFor(S0) : Commit(Step(files))
            /\ UNCHANGED command_queue
       ELSE /\ command_queue' = Tail(command_queue)
            /\ \E perm \in PermChoices(Head(command_queue) \in {"shuffle_toggle", "reshuffle"}) :
                  LET Step(files) ==
                          OuterCommand([Cur EXCEPT !.files = files], Head(command_queue), perm)
                  IN \E S0 \in {Step({})} :
                        \/ Commit(S0)
                        \/ \E files \in FilesFor(S0) : Commit(Step(files))
    /\ UNCHANGED shared_rest

\* after time.sleep(0.25): the rest of the iteration in which a break fired
BreakSleep ==
    /\ pc = "break_sleep"
    /\ LET Step(files) == NaturalEndCheck([Cur EXCEPT !.files = files])
       IN \E S0 \in {Step({})} :
             \/ Commit(S0)
             \/ \E files \in FilesFor(S0) : Commit(Step(files))
    /\ UNCHANGED shared_rest /\ UNCHANGED command_queue

\* the ADS block: the next filler, or the resume of the feature
AdsStep ==
    /\ pc = "ads"
    /\ \E exists \in BOOLEAN :
          LET Step(files) == AdsBlock([Cur EXCEPT !.files = files, !.ad_exists = exists])
          IN \E S0 \in {Step({})} :
                \/ Commit(S0)
                \/ \E files \in FilesFor(S0) : Commit(Step(files))
    /\ UNCHANGED shared_rest /\ UNCHANGED command_queue

\* a wait loop that looks at the end of the filler before the queue
AdWaitEndFirst ==
    /\ pc = "ad_wait"
    /\ IF player.state \in EndedStates
       THEN /\ Commit(AdReturn(Cur, "ad_done"))
            /\ UNCHANGED command_queue
       ELSE IF command_queue = <<>>
       THEN /\ Commit(Cur)
            /\ UNCHANGED command_queue
       ELSE /\ command_queue' = Tail(command_queue)
            /\ \E perm \in Perms(Len(video_files)) :
                  Commit(AdCommand(Cur, Head(command_queue), perm))
    /\ UNCHANGED shared_rest

\* one iteration of the wait loop of _play_single_ad_by_name
AdWait ==
    /\ pc = "ad_wait"
    /\ IF command_queue = <<>>
       THEN /\ IF player.state \in EndedStates
               THEN Commit(AdReturn(Cur, "ad_done"))
               ELSE Commit(Cur)
            /\ UNCHANGED command_queue
       ELSE /\ command_queue' = Tail(command_queue)
            /\ \E perm \in PermChoices(Head(command_queue) \in {"shuffle_toggle", "reshuffle"}) :
                  Commit(AdCommand(Cur, Head(command_queue), perm))
    /\ UNCHANGED shared_rest

Controller ==
    \/ ControllerInit
    \/ StartPoll
    \/ OuterLoop
    \/ BreakSleep
    \/ AdsStep
    \/ AdWait

(***************************************************************************)
(* Playback engine: its own progress                                       *)
(***************************************************************************)
env_rest ==
    <<db, playlist, ads_per_break, record_fired, videos, guide, xmltv_cache, response, command_queue, since_press,
      video_files, order, video_pos, shuffle_mode,
      movie_index, movie_media, breaks_ms, next_break_index, movie_state,
      mode, saved_pos_ms, ads_remaining,
      pc, after, waited, resume_ms, root_alive, destroy_pending,
      engine_callers, fired, fired_since_load, break_log>>

EngineOpens ==
    /\ pc # "stopped" /\ player.state = "Opening"
    /\ player' = [player EXCEPT !.state = "Playing", !.time = 0]
    /\ NoObservation
    /\ UNCHANGED env_rest

EngineFails ==
    /\ pc # "stopped" /\ player.state = "Opening"
    /\ player' = [player EXCEPT !.state = "Error"]
    /\ NoObservation
    /\ UNCHANGED env_rest

EngineProgress ==
    /\ pc # "stopped" /\ player.state = "Playing"
    /\ player.time < MediaLength(player.media)
    /\ player' = [player EXCEPT !.time = player.time + ResumeEpsilon]
    /\ NoObservation
    /\ UNCHANGED env_rest

EngineEnds ==
    /\ pc # "stopped" /\ player.state = "Playing"
    /\ player.time >= MediaLength(player.media)
    /\ player' = [player EXCEPT !.state = "Ended"]
    /\ NoObservation
    /\ UNCHANGED env_rest

Environment ==
    \/ EngineOpens
    \/ EngineFails
    \/ EngineProgress
    \/ EngineEnds

(***************************************************************************)
(* Schedule projector (StreamServer.py).  Durations are seconds; an        *)
(* optional value is a set with at most one element.  The schedule starts  *)
(* at schedule_start = 0 and ends at end_time = GuideHorizon.              *)
(***************************************************************************)
\* the variables of the feature player: the projector is another process
player_vars ==
    <<db, playlist, ads_per_break,
      video_files, order, video_pos, shuffle_mode,
      movie_index, movie_media, breaks_ms, next_break_index, movie_state,
      command_queue, since_press, mode, saved_pos_ms, ads_remaining,
      player,
      pc, after, waited, resume_ms, root_alive, destroy_pending,
      engine_callers, load_attempts, record_fired, fired, fired_since_load,
      break_log, last_step, seek_arg>>

VideoNames == 1..NumVideos

\* the element of a non-empty optional
Val(o) == CHOOSE x \in o : TRUE

\* Python's "x or 30.0" on a number
OrFallback(x) == IF x = 0 THEN FallbackSeconds ELSE x

\* what ffprobe may report as format.duration; no report ({}) stands for a
\* non-zero return code, a timeout, a missing ffprobe or an unusable output
ProbeSeconds == {-30, 0, 90}
ProbeOutcomes == {{}} \cup {{d} : d \in ProbeSeconds}

\* a get_video_duration that probes although the database holds a duration
GetVideoDurationProbesFirst(duration, filename, probe) ==
    IF probe # {} /\ Val(probe) > 0
    THEN [result |-> Val(probe), duration |-> [duration EXCEPT ![filename] = probe],
          probed |-> TRUE]
    ELSE IF duration[filename] # {}
    THEN [result |-> Val(duration[filename]), duration |-> duration, probed |-> TRUE]
    ELSE LET d == IF probe # {} THEN Val(probe) ELSE FallbackSeconds
         IN [result |-> d, duration |-> [duration EXCEPT ![filename] = {d}],
             probed |-> TRUE]

\* get_video_duration(video_path, filename): the value of the database if
\* there is one; else the probe, whose positive result is stored and
\* returned; else the local variable duration is stored and returned, which
\* is 30.0 unless the probe has reported a duration that is not positive
GetVideoDuration(duration, filename, probe) ==
    IF duration[filename] # {}
    THEN [result |-> Val(duration[filename]), duration |-> duration, probed |-> FALSE]
    ELSE IF probe # {} /\ Val(probe) > 0
    THEN [result |-> Val(probe), duration |-> [duration EXCEPT ![filename] = probe],
          probed |-> TRUE]
    ELSE LET d == IF probe # {} THEN Val(probe) ELSE FallbackSeconds
         IN [result |-> d, duration |-> [duration EXCEPT ![filename] = {d}],
             probed |-> TRUE]

\* the try block of the walk for filename; db_fails: the database raises
\* when get_video_duration reads it
ResolveDuration(G, V, filename, probe, db_fails) ==
    IF G.duration_cache[filename] # {}
    THEN [seconds |-> OrFallback(Val(G.duration_cache[filename])),
          duration_cache |-> G.duration_cache, duration |-> V.duration,
          probed |-> FALSE, raised |-> FALSE]
    ELSE IF filename \in V.on_disk
    THEN IF db_fails
         THEN [seconds |-> ErrorSeconds,
               duration_cache |-> G.duration_cache, duration |-> V.duration,
               probed |-> FALSE, raised |-> TRUE]
         ELSE LET r == GetVideoDuration(V.duration, filename, probe)
              IN [seconds |-> OrFallback(r.result),
                  duration_cache |->
                      [G.duration_cache EXCEPT ![filename] = {OrFallback(r.result)}],
                  duration |-> r.duration,
                  probed |-> r.probed, raised |-> FALSE]
    ELSE [seconds |-> FallbackSeconds,
          duration_cache |-> G.duration_cache, duration |-> V.duration,
          probed |-> FALSE, raised |-> FALSE]

\* "for playlist in playlists: if not videos: continue": the first playlist
\* with videos from index from on, 0 if there is none
NextPlaylist(V, from) ==
    LET rest == {i \in from..Len(V.playlists) : V.playlists[i] # <<>>}
    IN IF rest = {} THEN 0 ELSE SetMin(rest)

\* duration_cache as generate_xmltv_guide loads it: the durations of the
\* database that are truthy
Preloaded(V) ==
    [f \in DOMAIN V.duration |->
        IF V.duration[f] \notin {{}, {0}} THEN V.duration[f] ELSE {}]

\* generate_xmltv_guide up to the first walk (refresh_xmltv_cache may call
\* it again and again)
GuideStart ==
    /\ guide.pc \in {"idle", "done", "failed"}
    /\ guide' = [pc |-> IF NextPlaylist(videos, 1) = 0 THEN "done" ELSE "walk",
                 duration_cache |-> Preloaded(videos),
                 playlist |-> NextPlaylist(videos, 1),
                 current_time |-> 0, video_index |-> 0, programmes |-> <<>>]
    /\ UNCHANGED <<videos, xmltv_cache, response>>
    /\ UNCHANGED player_vars

\* a walk that stays on the last video once it has reached it
StepFileNoWrap ==
    LET vids == videos.playlists[guide.playlist]
    IN vids[(IF guide.video_index < Len(vids) THEN guide.video_index ELSE Len(vids) - 1) + 1]

\* the video of the iteration: videos[video_index % len(videos)]
StepFile ==
    LET vids == videos.playlists[guide.playlist]
    IN vids[(guide.video_index % Len(vids)) + 1]

\* the resolution reaches get_video_duration
ReachesProbe(filename) ==
    guide.duration_cache[filename] = {} /\ filename \in videos.on_disk

\* the iteration with resolution r: the programme element, then
\* current_time = program_end and video_index += 1; when the walk of the
\* playlist is over, the next playlist with videos
Emit(G, V, filename, r) ==
    LET program_end == G.current_time + r.seconds
        over == ~(program_end < GuideHorizon)
        nxt == NextPlaylist(V, G.playlist + 1)
    IN [pc |-> IF over /\ nxt = 0 THEN "done" ELSE "walk",
        duration_cache |-> r.duration_cache,
        playlist |-> IF over THEN nxt ELSE G.playlist,
        current_time |-> IF over THEN 0 ELSE program_end,
        video_index |-> IF over THEN 0 ELSE G.video_index + 1,
        programmes |-> Append(G.programmes,
                              [channel |-> G.playlist, start |-> G.current_time,
                               stop |-> program_end, filename |-> filename,
                               probed |-> r.probed,
                               title |-> IF r.raised THEN "Error loading video"
                                         ELSE "title"])]

\* one iteration of "while current_time < end_time"
GuideStep ==
    /\ guide.pc = "walk"
    /\ Len(guide.programmes) < MaxProgrammes
    /\ guide.current_time > -GuideHorizon
    /\ \E probe \in IF ReachesProbe(StepFile) THEN ProbeOutcomes ELSE {{}} :
          \E db_fails \in IF ReachesProbe(StepFile) THEN BOOLEAN ELSE {FALSE} :
             LET r == ResolveDuration(guide, videos, StepFile, probe, db_fails)
             IN /\ guide' = Emit(guide, videos, StepFile, r)
                /\ videos' = [videos EXCEPT !.duration = r.duration]
    /\ UNCHANGED <<xmltv_cache, response>>
    /\ UNCHANGED player_vars

\* generate_xmltv_guide raises outside the try block of the walk: a read
\* of the database fails where the walk of a playlist begins.  The except
\* branch of refresh_xmltv_cache logs it and returns False
RefreshFails ==
    /\ guide.pc = "walk"
    /\ guide.video_index = 0 /\ guide.current_time = 0
    /\ guide' = [GuideIdle EXCEPT !.pc = "failed"]
    /\ UNCHANGED <<videos, xmltv_cache, response>>
    /\ UNCHANGED player_vars

\* a refresh that stores nothing when generate_xmltv_guide returns
RefreshForgets ==
    /\ guide.pc = "done"
    /\ guide' = GuideIdle
    /\ UNCHANGED <<videos, xmltv_cache, response>>
    /\ UNCHANGED player_vars

\* generate_xmltv_guide returns to refresh_xmltv_cache, which stores the
\* document: xmltv_cache['content'] = generate_xmltv_guide()
RefreshReturns ==
    /\ guide.pc = "done"
    /\ xmltv_cache' = [content |-> {guide.programmes}]
    /\ guide' = GuideIdle
    /\ UNCHANGED <<videos, response>>
    /\ UNCHANGED player_vars

\* refresh_xmltv_cache is entered, by main() or by GET /refresh-guide
RefreshStart == guide.pc # "done" /\ GuideStart

\* guide(): status 503 while the cache is empty, else the cached document
GuideResponse(cache) ==
    IF cache.content = {} THEN [status |-> 503, body |-> <<>>]
    ELSE [status |-> 200, body |-> Val(cache.content)]

\* GET /guide.xml
GuideRequest ==
    /\ response' = GuideResponse(xmltv_cache)
    /\ UNCHANGED <<videos, guide, xmltv_cache>>
    /\ UNCHANGED player_vars

(***************************************************************************)
(* Specifications                                                          *)
(***************************************************************************)
Next ==
    \/ Setup
    \/ KeyEvent(FeatureCommands)
    \/ TimePasses
    \/ MainloopDestroy
    \/ Controller
    \/ Environment

Spec == Init /\ [][Next]_vars

(***************************************************************************)
(* Properties of the controller, checked under Spec                        *)
(***************************************************************************)
\* the step is one of the controller thread
ByControllerThread == pc # "setup" /\ last_step' \notin {"none", "destroyed"}

\* a tick: an iteration of the outer loop whose command_queue.get times out
Tick == pc = "loop" /\ command_queue = <<>> /\ ByControllerThread

\* the sampled position has reached the breakpoint at the cursor, in MOVIE mode
BreakReached ==
    /\ mode = "MOVIE"
    /\ next_break_index < Len(breaks_ms)
    /\ player.time >= breaks_ms[next_break_index + 1]

\* the sampled position is below the window end, if one is configured
BelowWindowEnd == \A e \in movie_state.end_ms : player.time < e

\* the step starts an ad break
Fires == pc = "loop" /\ pc' = "break_sleep"

FiringEffects ==
    /\ saved_pos_ms' = player.time
    /\ next_break_index' = next_break_index + 1
    /\ mode' = "ADS"
    /\ ads_remaining' = ads_per_break

\* C5 (amended): a tick starts an ad break exactly when the mode is MOVIE,
\* the cursor is below the number of breakpoints, the sampled position is
\* >= the breakpoint at the cursor and the position has not reached a
\* configured window end; the firing sets the resume offset to the sampled
\* position, moves the cursor by one, sets the mode to ADS and
\* ads_remaining to ads_per_break.
C5_BreakFiring ==
    [][Tick => /\ Fires <=> (BreakReached /\ BelowWindowEnd)
               /\ Fires => FiringEffects]_vars

\* C5 as stated: the firing condition without the window end
C5_AsStated ==
    [][Tick => /\ Fires <=> BreakReached
               /\ Fires => FiringEffects]_vars

\* a tick has just fired the break of the breakpoint before the cursor
C5_Witness ==
    /\ last_step = "fire" /\ pc = "break_sleep"
    /\ mode = "ADS" /\ ads_remaining = ads_per_break
    /\ next_break_index >= 1
    /\ saved_pos_ms >= breaks_ms[next_break_index]

\* the break ends: the ADS block finds no filler left to play
EndOfBreak ==
    /\ pc = "ads" /\ ByControllerThread
    /\ (ads_remaining <= 0 \/ order = <<>>)
    /\ movie_media # NoMedia

ResumeTarget == Max(movie_state.start_ms, saved_pos_ms + ResumeEpsilon)

\* the step runs advance_to_next_movie: the first candidate is the next
\* queue entry, and the session stops or starts the loaded feature
Advances ==
    /\ load_attempts' # <<>>
    /\ load_attempts'[1][1][1] = (movie_index + 1) % Len(db)
    /\ \/ pc' = "stopped" /\ last_step' = "stop"
       \/ pc' = "start_wait" /\ last_step' = "advance"

\* C25: a tick in MOVIE mode whose sampled position is at or beyond the
\* configured window end runs advance_to_next_movie and starts no break,
\* whatever the breakpoint at the cursor; when a feature is loaded the
\* cursor is 0 on the break list of that feature, so what was left of the
\* old list is gone.
C25_WindowEndBeforeBreak ==
    [][(Tick /\ mode = "MOVIE" /\ ~BelowWindowEnd) =>
          /\ Advances
          /\ ~Fires /\ mode' = "MOVIE"
          /\ saved_pos_ms' = saved_pos_ms /\ ads_remaining' = ads_remaining
          /\ last_step' = "advance" =>
                /\ next_break_index' = 0
                /\ fired_since_load' = {}
                /\ breaks_ms' = InstalledBreaks(LoadTimestampsFor(db[movie_index' + 1]))]_vars

\* no break has fired in the session (saved_pos_ms was never set), the
\* second feature, which has a window end and two breakpoints before it,
\* was left by the forced end, and the first feature is loaded
C25_Witness ==
    /\ Len(db) = 2 /\ db[2] = RowWindow
    /\ last_step = "advance" /\ pc = "start_wait" /\ after = "advance"
    /\ saved_pos_ms = 0
    /\ movie_index = 0
    /\ load_attempts = << << <<0, TRUE>> >> >>
    /\ next_break_index = 0

StaysOnFeature ==
    /\ movie_index' = movie_index
    /\ next_break_index' = next_break_index
    /\ load_attempts' = <<>>
    /\ player'.media = movie_media

\* _start_and_wait returns to the resume of the feature
ResumeReturns ==
    /\ pc = "start_wait" /\ after = "resume" /\ ByControllerThread
    /\ pc' # "start_wait"

\* C34 as stated: the rest of an iteration in which a break fired runs no
\* advance; a feature loaded by an advance is in MOVIE mode; the feature is
\* resumed at a position that was saved since it was loaded; a break ends
\* with the resume of its feature, or with an advance when the resume
\* target is at or beyond the window end.
C34_BreakEndsOnItsFeature ==
    [][/\ (pc = "break_sleep" /\ ByControllerThread) =>
            /\ load_attempts' = <<>> /\ movie_index' = movie_index
            /\ pc' = "ads"
       /\ last_step' = "advance" => mode' = "MOVIE"
       /\ (ResumeReturns /\ last_step' = "resumed") =>
            /\ fired_since_load # {}
            /\ seek_arg' = ResumeTarget
       /\ EndOfBreak =>
            IF \E e \in movie_state.end_ms : ResumeTarget >= e
            THEN Advances
            ELSE StaysOnFeature /\ after' = "resume"]_vars

C7_NeverNegative == ads_remaining >= 0

\* C8: a "try the next candidate" loop makes at most one load attempt per
\* candidate, on distinct candidates, and ends at its first success or when
\* all have failed; when all have failed the session is stopped or its
\* window is about to be destroyed.  The playlist selection has one
\* candidate: an empty playlist ends the session.
C8_BoundedLoops ==
    /\ \A k \in 1..Len(load_attempts) :
          LET loop == load_attempts[k] IN
          /\ Len(loop) >= 1 /\ Len(loop) <= Len(db)
          /\ \A i, j \in 1..Len(loop) : loop[i][1] = loop[j][1] => i = j
          /\ \A i \in 1..(Len(loop) - 1) : ~loop[i][2]
          /\ Len(loop) < Len(db) => loop[Len(loop)][2]
          /\ ~loop[Len(loop)][2] => (pc = "stopped" \/ destroy_pending)
    /\ (pc # "setup" /\ video_files = <<>>) => pc = "stopped"

\* a loop has tried every feature of the queue in vain and the controller
\* has stopped
C8_Witness ==
    /\ pc = "stopped" /\ last_step = "stop"
    /\ \E k \in 1..Len(load_attempts) :
          /\ Len(load_attempts[k]) = Len(db)
          /\ \A i \in 1..Len(db) : ~load_attempts[k][i][2]
    /\ movie_media # NoMedia

\* C10: every call into the playback engine (set media, play, pause, stop,
\* seek) is made by the controller thread.  The main thread attaches the
\* player to the window once, before the controller thread exists.
C10_OnlyController == engine_callers \subseteq {"controller"}

\* a key has been accepted while the engine plays
C10_Witness ==
    /\ command_queue # <<>> /\ since_press = 0
    /\ player.state = "Playing"
    /\ engine_callers = {"controller"}

(***************************************************************************)
(* SpecFair: one feature with a playback window, under a fair scheduling   *)
(* of the controller thread and of the main loop's pending root.destroy.   *)
(* Nothing is assumed of the engine or of the user.                        *)
(***************************************************************************)
InitFair == InitWith({<<RowWindow>>}, {1}, {FALSE}, {<<1>>}, {FALSE})

SpecFair ==
    /\ InitFair /\ [][Next]_vars
    /\ WF_vars(Controller)
    /\ WF_vars(MainloopDestroy)

ExitPending == \E i \in 1..Len(command_queue) : command_queue[i] = "exit"

\* C2: once an exit command is in command_queue the session eventually is
\* stopped; the step that consumes the command stops the player and ends
\* the process, whatever the mode, and nothing happens after the end.
C2_ExitStops ==
    /\ ExitPending ~> (pc = "stopped")
    /\ [](last_step = "exit" =>
            pc = "stopped" /\ ~root_alive /\ player.state = "Stopped")
    /\ [][(pc = "stopped" /\ ~root_alive) => player' = player /\ pc' = pc]_vars

\* the exit command has been consumed in the wait loop of a filler
C2_Witness ==
    /\ last_step = "exit" /\ mode = "ADS"
    /\ player.media = AdMedia(1) /\ player.state = "Stopped"
    /\ pc = "stopped"

\* the session has moved to another load of a feature or has stopped
LeftFeature == last_step \in {"advance", "stop", "no_movie"} \/ pc = "stopped"

\* C3 as stated: after _start_and_wait has failed for a feature the
\* controller takes the advance path, and so never stays on that feature
C3_StartFailureAdvances ==
    (last_step = "start_failed" /\ mode = "MOVIE") ~> LeftFeature

\* the engine has come to an end on the current feature, seen from the
\* outer loop in MOVIE mode
FeatureEnded ==
    /\ pc = "loop" /\ mode = "MOVIE" /\ root_alive
    /\ player.media = movie_media /\ movie_media # NoMedia
    /\ player.state \in EndedStates

\* C35 as stated: in MOVIE mode, once the engine is in Ended, Stopped or
\* Error on the current feature, the controller eventually advances to
\* another load of a feature or the session stops, unless a command arrives;
\* here the feature has a window end.
C35_EndedFeatureIsLeft ==
    FeatureEnded ~> (LeftFeature \/ command_queue # <<>>)

(***************************************************************************)
(* SpecSession: one feature with two breakpoints, with the record of the   *)
(* breakpoints fired in the session.                                       *)
(***************************************************************************)
InitSession == InitWith({<<RowWindow>>}, {1}, {FALSE}, {<<1>>}, {TRUE})

SpecSession == InitSession /\ [][Next]_vars

\* load_movie has succeeded in the step
Loads ==
    \E k \in 1..Len(load_attempts') :
        \E i \in 1..Len(load_attempts'[k]) : load_attempts'[k][i][2]

\* C4 (amended): between two loads of a feature the break cursor never
\* decreases and a breakpoint that has fired is not fired again; every
\* load_movie, of another feature or of the same one, sets the cursor to 0.
C4_CursorBetweenLoads ==
    [][ByControllerThread =>
          /\ Loads => next_break_index' = 0
          /\ ~Loads => next_break_index' >= next_break_index /\ breaks_ms' = breaks_ms
          /\ Fires => /\ breaks_ms[next_break_index + 1] \notin fired_since_load
                      /\ next_break_index' = next_break_index + 1]_vars

\* C26: the break cursor stays within 0..len(breaks_ms); a step without
\* load_movie leaves it alone or, if it starts a break, moves it by exactly
\* one; a step with a successful load_movie sets it to 0, also when the
\* feature loaded is the one that was playing; it goes down in no other
\* step.
C26_CursorSteps ==
    /\ [](next_break_index \in 0..Len(breaks_ms))
    /\ [][/\ Loads => next_break_index' = 0
          /\ ~Loads => next_break_index' =
                           next_break_index + (IF last_step' = "fire" THEN 1 ELSE 0)
          /\ next_break_index' < next_break_index => Loads
          /\ last_step' = "fire" => ~Loads /\ pc' = "break_sleep"]_vars

\* the only feature of the queue was loaded again at its window end after
\* both of its breaks had fired, and the cursor is 0
C26_Witness ==
    /\ Len(db) = 1
    /\ last_step = "advance" /\ after = "advance"
    /\ load_attempts = << << <<0, TRUE>> >> >>
    /\ next_break_index = 0 /\ Len(breaks_ms) = 2
    /\ \A i \in 1..2 : <<0, breaks_ms[i]>> \in fired

\* C4 as stated: a breakpoint that has fired in the session never fires again
C4_AsStated ==
    [][Fires => <<movie_index, breaks_ms[next_break_index + 1]>> \notin fired]_vars

\* the first breakpoint has just fired again, in a session in which the
\* second one has fired before the feature was loaded again
C4_Witness ==
    /\ last_step = "fire" /\ next_break_index = 1
    /\ Len(breaks_ms) = 2
    /\ <<movie_index, breaks_ms[2]>> \in fired
    /\ fired_since_load = {breaks_ms[1]}

(***************************************************************************)
(* SpecKeys: every bound key, one feature without window                   *)
(***************************************************************************)
InitKeys == InitWith({<<RowOpen>>}, {1}, {FALSE}, {<<1>>}, {FALSE})

NextKeys ==
    \/ Setup
    \/ KeyEvent(Commands)
    \/ TimePasses
    \/ MainloopDestroy
    \/ Controller
    \/ Environment

SpecKeys == InitKeys /\ [][NextKeys]_vars

\* the main loop runs, more than the cooldown has passed since the last
\* accepted event, and the explored part of the queue has room
CanAccept ==
    /\ root_alive /\ pc # "setup"
    /\ Len(command_queue) < MaxQueue
    /\ since_press > PressCooldown

\* C9: a command enters command_queue only when more than press_cooldown
\* has passed since the last accepted event of any kind, and the accepted
\* event restarts the cooldown; an event of any kind that comes more than
\* the cooldown after the last accepted one is accepted.
C9_Debounce ==
    /\ [][Len(command_queue') > Len(command_queue) =>
            /\ since_press > PressCooldown
            /\ since_press' = 0
            /\ \E cmd \in Commands : command_queue' = Append(command_queue, cmd)]_vars
    /\ [](CanAccept =>
            \A cmd \in Commands :
                ENABLED (KeyEvent({cmd}) /\ command_queue' = Append(command_queue, cmd)))

\* a second event has been accepted after the first one was consumed
C9_Witness ==
    /\ shuffle_mode
    /\ command_queue = <<"exit">>
    /\ since_press = 0

\* a key event that arrives inside the cooldown
DroppedEvent == KeyEvent(Commands) /\ since_press <= PressCooldown

\* C30: a key event inside the cooldown leaves command_queue, the time
\* since the last accepted event, the engine and every variable of the
\* controller as they were; the time since the last accepted event goes
\* back to zero only when a command enters the queue, so an event that
\* comes more than the cooldown after the last accepted one is accepted
\* whatever was dropped in between.
C30_DroppedChangesNothing ==
    [][/\ DroppedEvent =>
            /\ UNCHANGED <<command_queue, since_press, player, engine_callers>>
            /\ UNCHANGED controller_vars
       /\ since_press' < since_press =>
            /\ since_press > PressCooldown /\ since_press' = 0
            /\ Len(command_queue') = Len(command_queue) + 1
       /\ (KeyEvent(Commands) /\ since_press > PressCooldown) =>
            /\ since_press' = 0
            /\ Len(command_queue') = Len(command_queue) + 1]_vars

\* an event was accepted and consumed, the cooldown has not passed and a
\* key event that arrives now is dropped
C30_Witness ==
    /\ since_press = PressCooldown /\ command_queue = <<>> /\ shuffle_mode
    /\ ENABLED (KeyEvent(Commands) /\ UNCHANGED <<command_queue, since_press>>)
    /\ ~ENABLED (KeyEvent(Commands) /\ command_queue' # command_queue)

(***************************************************************************)
(* SpecShuffle: the keys that the filler wait loop handles, NumAds fillers, *)
(* two fillers to a break                                                  *)
(***************************************************************************)
\* a playlist of n different fillers
FillerList(n) == [i \in 1..n |-> i]
\* a playlist whose last entry is its first filler again
DupList(n) == [i \in 1..n |-> IF i = n THEN 1 ELSE i]

InitShuffle ==
    InitWith({<<RowOpen>>}, {2}, {FALSE}, {FillerList(NumAds)}, {FALSE})

\* the commands of the filler wait loop
AdCommands == {"next", "shuffle_toggle", "reshuffle", "exit"}

NextShuffle ==
    \/ Setup
    \/ KeyEvent(AdCommands)
    \/ TimePasses
    \/ MainloopDestroy
    \/ Controller
    \/ Environment

SpecShuffle == InitShuffle /\ [][NextShuffle]_vars

\* an iteration of the wait loop of _play_single_ad_by_name
WaitLoopStep == pc = "ad_wait" /\ ByControllerThread

\* what the command cmd does when the wait loop takes it
WaitLoopEffect(cmd) ==
    IF cmd = "exit"
    THEN pc' = "stopped" /\ ~root_alive' /\ player'.state = "Stopped"
    ELSE IF cmd = "next"
    THEN /\ player'.state = "Stopped" /\ pc' = "ads"
         /\ ads_remaining' = ads_remaining - 1
         /\ video_pos' = (video_pos + 1) % Len(order)
    ELSE IF cmd = "shuffle_toggle"
    THEN shuffle_mode' = ~shuffle_mode /\ pc' = "ad_wait" /\ player' = player
    ELSE IF cmd = "reshuffle"
    THEN /\ shuffle_mode' = shuffle_mode /\ pc' = "ad_wait" /\ player' = player
         /\ (shuffle_mode => order' \in Perms(Len(video_files)))
    ELSE pc' = "ad_wait" /\ player' = player

\* C11: an iteration of the wait loop of a filler takes the command at the
\* head of command_queue, if there is one, and the command takes effect in
\* that iteration (exit stops the session, next stops the filler and moves
\* on, shuffle_toggle and reshuffle change the order while the filler keeps
\* playing); the loop takes the end of the filler only with an empty queue,
\* and the break goes on with the fillers that remain.
C11_WaitLoopDrains ==
    [][WaitLoopStep =>
          IF command_queue # <<>>
          THEN /\ command_queue' = Tail(command_queue)
               /\ WaitLoopEffect(Head(command_queue))
               /\ mode' = "ADS"
          ELSE /\ command_queue' = command_queue
               /\ pc' = "ads" <=> player.state \in EndedStates]_vars

\* a skip taken while the filler was playing, with a filler left in the break
C11_Witness ==
    /\ last_step = "ad_skipped" /\ pc = "ads"
    /\ player.state = "Stopped" /\ player.media = AdMedia(1)
    /\ ads_remaining = 1
    /\ mode = "ADS"

\* the commands the wait loop of a filler has no branch for
DiscardedCommands == {"prev", "movie_next", "movie_prev"}

ToggleNext ==
    /\ pc \in {"loop", "ad_wait"}
    /\ command_queue # <<>>
    /\ Head(command_queue) = "shuffle_toggle"

\* T differs from the current state in nothing but the sequencer
ToggleKeeps(T) ==
    /\ T.shuffle_mode = ~shuffle_mode
    /\ T.video_files = video_files
    /\ T.order \in Perms(Len(video_files))
    /\ T.video_pos \in 0..(Len(video_files) - 1)
    /\ T.player = player /\ T.engine_callers = engine_callers
    /\ T.mode = mode /\ T.movie_index = movie_index /\ T.movie_media = movie_media
    /\ T.breaks_ms = breaks_ms /\ T.next_break_index = next_break_index
    /\ T.movie_state = movie_state
    /\ T.saved_pos_ms = saved_pos_ms /\ T.ads_remaining = ads_remaining
    /\ T.pc = pc /\ T.root_alive = root_alive /\ T.destroy_pending = destroy_pending

\* C16: the handling of shuffle_toggle, in the outer loop and in the filler
\* wait loop, flips shuffle_mode and rebuilds the order and the cursor; it
\* makes no call into the player and leaves the player's media and state,
\* the mode, the feature index, the break cursor, the resume offset and
\* ads_remaining as they are.  In the wait loop that is the whole iteration.
C16_ToggleFrame ==
    /\ [](ToggleNext =>
            \A perm \in Perms(Len(video_files)) : ToggleKeeps(ToggleShuffle(Cur, perm)))
    /\ [][(ToggleNext /\ WaitLoopStep) =>
            /\ shuffle_mode' = ~shuffle_mode
            /\ UNCHANGED <<player, engine_callers, mode, movie_index, movie_media,
                           breaks_ms, next_break_index, movie_state, saved_pos_ms,
                           ads_remaining, pc, video_files>>]_vars

\* shuffle has been switched on while a filler plays, and the order has changed
C16_Witness ==
    /\ last_step = "shuffle_toggle" /\ pc = "ad_wait"
    /\ shuffle_mode /\ order # Identity(Len(video_files))
    /\ player.state = "Playing" /\ player.media = AdMedia(1)
    /\ ads_remaining = 2

(***************************************************************************)
(* SpecSeq: the sequencer by itself.  FeaturePlayer.py and MediaPlayer.py  *)
(* hold the same build_order, current_video_name, load_current_playlist,   *)
(* step and reshuffle functions; here they are applied in any order, to    *)
(* playlists of up to NumAds + 1 entries, of different names or with the   *)
(* first name listed again at the end.                                     *)
(* VideoLoopEnded is the end of a video in MediaPlayer.py's video_loop.    *)
(***************************************************************************)
SeqLists == UNION {{FillerList(n), DupList(n)} : n \in 0..(NumAds + 1)}

InitSeq == InitWith({<<RowOpen>>}, {1}, BOOLEAN, SeqLists, {FALSE})

seq_rest == <<db, playlist, ads_per_break, command_queue, since_press, record_fired, videos, guide, xmltv_cache, response>>

\* switch_playlist of MediaPlayer.py with one playlist: it is loaded again
SeqLoad ==
    /\ pc # "setup"
    /\ \E perm \in Perms(Len(playlist)) :
          Commit([LoadCurrentPlaylist(Cur, perm) EXCEPT !.last_step = "load"])
    /\ UNCHANGED seq_rest

SeqStepNext ==
    /\ pc # "setup"
    /\ Commit([StepNextAd(Cur) EXCEPT !.last_step = "step_next"])
    /\ UNCHANGED seq_rest

SeqStepPrev ==
    /\ pc # "setup"
    /\ Commit([StepPrevAd(Cur) EXCEPT !.last_step = "step_prev"])
    /\ UNCHANGED seq_rest

SeqToggle ==
    /\ pc # "setup"
    /\ \E perm \in Perms(Len(video_files)) :
          Commit([ToggleShuffle(Cur, perm) EXCEPT !.last_step = "shuffle_toggle"])
    /\ UNCHANGED seq_rest

SeqReshuffle ==
    /\ pc # "setup"
    /\ \E perm \in Perms(Len(video_files)) :
          Commit([Reshuffle(Cur, perm) EXCEPT !.last_step = "reshuffle"])
    /\ UNCHANGED seq_rest

\* video_loop of MediaPlayer.py when the video has ended: step_next(), and
\* random.shuffle(order[0]) when shuffle is on and the cursor is back at 0
VideoLoopEnded(S, perm) ==
    LET S1 == StepNextAd(S)
    IN IF S1.shuffle_mode /\ S1.video_pos = 0 THEN [S1 EXCEPT !.order = perm] ELSE S1

SeqEnded ==
    /\ pc # "setup" /\ order # <<>> /\ video_files # <<>>
    /\ \E perm \in Perms(Len(order)) :
          Commit([VideoLoopEnded(Cur, perm) EXCEPT !.last_step = "ended"])
    /\ UNCHANGED seq_rest

NextSeq ==
    \/ Setup
    \/ SeqLoad
    \/ SeqStepNext
    \/ SeqStepPrev
    \/ SeqToggle
    \/ SeqReshuffle
    \/ SeqEnded

SpecSeq == InitSeq /\ [][NextSeq]_vars

\* current_video_name() in the current state
CurrentName == CurrentVideoName(Cur)

\* C12: a reshuffle and a shuffle toggle leave current_video_name() as it
\* was, for every non-empty filler list, cursor and outcome of the shuffle.
C12_ReshufflePreservesCurrent ==
    [][(pc # "setup" /\ video_files # <<>> /\ last_step' \in {"reshuffle", "shuffle_toggle"})
         => CurrentName' = CurrentName]_vars

\* a reshuffle has moved the current filler to another place of the order
C12_Witness ==
    /\ last_step = "reshuffle" /\ shuffle_mode
    /\ Len(video_files) = NumAds + 1
    /\ video_pos = 0 /\ order[1] = NumAds
    /\ CurrentName = {video_files[NumAds + 1]}
    /\ video_files[NumAds + 1] \notin {video_files[i] : i \in 1..NumAds}

\* C13: the order is a permutation of 0 .. n-1, n being the number of
\* fillers, and the cursor is within 0 .. n-1 when n > 0.
C13_OrderBijection ==
    /\ order \in Perms(Len(video_files))
    /\ Len(video_files) > 0 => video_pos \in 0..(Len(video_files) - 1)
    /\ Len(video_files) = 0 => video_pos = 0

\* a shuffled order that is not the sequential one, the cursor on its last place
C13_Witness ==
    /\ Len(video_files) = NumAds + 1
    /\ order # Identity(Len(video_files))
    /\ video_pos = NumAds
    /\ last_step = "step_prev"

\* n applications of step_next_ad
RECURSIVE StepNextTimes(_, _)
StepNextTimes(S, n) == IF n = 0 THEN S ELSE StepNextTimes(StepNextAd(S), n - 1)

\* the sequencer but for the cursor
SeqFrame == <<video_files, order, shuffle_mode>>

\* C14: step_next_ad and step_prev_ad move the cursor by +1 and -1 modulo
\* the length of the order and change nothing else of the sequencer; each
\* undoes the other, len(order) steps forward come back to the cursor, and
\* on an empty order both change nothing.
C14_StepsWrap ==
    /\ [][(pc # "setup" /\ last_step' = "step_next") =>
            /\ UNCHANGED SeqFrame
            /\ video_pos' = IF order = <<>> THEN video_pos
                            ELSE (video_pos + 1) % Len(order)]_vars
    /\ [][(pc # "setup" /\ last_step' = "step_prev") =>
            /\ UNCHANGED SeqFrame
            /\ video_pos' = IF order = <<>> THEN video_pos
                            ELSE IF video_pos = 0 THEN Len(order) - 1
                            ELSE video_pos - 1]_vars
    /\ [](pc # "setup" =>
            /\ StepPrevAd(StepNextAd(Cur)) = Cur
            /\ StepNextAd(StepPrevAd(Cur)) = Cur
            /\ StepNextTimes(Cur, Len(order)) = Cur)

\* a step forward from the last place of an order of NumAds + 1 fillers
C14_Witness ==
    /\ last_step = "step_next"
    /\ Len(order) = NumAds + 1
    /\ video_pos = 0
    /\ shuffle_mode /\ order[1] # 0

\* the names of video_files are all different
NoRepeats == \A i, j \in 1..Len(video_files) : video_files[i] = video_files[j] => i = j

\* C33: after every step of the sequencer that leaves shuffle off the order
\* is the identity on the list; a toggle to OFF puts the cursor on the list
\* index of the filler that was current (the first index of its name; the
\* index the old order gave when no name is listed twice), and a step_next
\* with shuffle off goes to the next index of the list, wrapping at its end.
C33_SequentialOrder ==
    [][/\ (pc # "setup" /\ ~shuffle_mode') =>
            order' = Identity(Len(video_files'))
       /\ (pc # "setup" /\ last_step' = "shuffle_toggle" /\ shuffle_mode /\ video_files # <<>>) =>
            /\ ~shuffle_mode' /\ video_files' = video_files
            /\ CurrentName' = CurrentName
            /\ video_pos' = IndexOf(video_files, Val(CurrentName))
            /\ NoRepeats => video_pos' = order[video_pos + 1]
       /\ (pc # "setup" /\ last_step' = "step_next" /\ ~shuffle_mode /\ video_files # <<>>) =>
            /\ video_pos' = (video_pos + 1) % Len(video_files)
            /\ CurrentName' = {video_files[video_pos' + 1]}]_vars

\* shuffle has just been switched off with the cursor on the last of
\* NumAds + 1 different fillers
C33_Witness ==
    /\ last_step = "shuffle_toggle" /\ ~shuffle_mode
    /\ Len(video_files) = NumAds + 1 /\ NoRepeats
    /\ order = Identity(NumAds + 1)
    /\ video_pos = NumAds

(***************************************************************************)
(* SpecBreak: one feature without window, NumAds fillers in sequential     *)
(* order, BreakAds fillers to a break, with the log of the break           *)
(***************************************************************************)
InitBreak == InitWith({<<RowOpen>>}, {BreakAds}, {FALSE}, {FillerList(NumAds)}, {TRUE})

\* the keys of SpecBreak: the skip
BreakCommands == {"next"}

NextBreak ==
    \/ Setup
    \/ KeyEvent(BreakCommands)
    \/ TimePasses
    \/ MainloopDestroy
    \/ Controller
    \/ Environment

SpecBreak == InitBreak /\ [][NextBreak]_vars

\* every filler of the break had its file, and no command moved the cursor
\* or changed the order
CleanBreak == \A i \in 1..Len(break_log.events) : break_log.events[i] >= 0

\* the indices c, c+1, ..., c+k-1 modulo n
Consecutive(c, k, n) == [i \in 1..k |-> (c + i - 1) % n]

\* C15: in sequential order, with every filler file present and no skip,
\* step or reshuffle, the fillers of a break are those of the indices
\* c, c+1, ... modulo n in that order, c being the cursor when the break
\* fired and n the length of the list, and there are ads_per_break of them
\* when the ADS block resumes the feature.
C15_BreakPlaysConsecutive ==
    (~shuffle_mode /\ CleanBreak) =>
        /\ Len(break_log.events) <= ads_per_break
        /\ break_log.events =
              Consecutive(break_log.cursor, Len(break_log.events), Len(video_files))
        /\ last_step = "resume" => Len(break_log.events) = ads_per_break

\* the second break of the session: three fillers of a list of two, from cursor 1
C15_Witness ==
    /\ last_step = "resume" /\ ~shuffle_mode
    /\ Len(video_files) = NumAds
    /\ break_log.cursor = BreakAds % NumAds
    /\ break_log.cursor # 0
    /\ Len(break_log.events) = BreakAds
    /\ CleanBreak

\* C29: a skip taken by the wait loop of a filler stops the engine and ends
\* that filler only: the cursor moves by one, ads_remaining goes down by
\* one, the mode stays ADS and nothing of the feature changes; the ADS block
\* then goes on with the next filler while ads_remaining is positive, and
\* the mode leaves ADS only with ads_remaining at zero.
C29_SkipEndsOneFiller ==
    [][/\ last_step' = "ad_skipped" =>
            /\ pc = "ad_wait" /\ pc' = "ads" /\ mode' = "ADS"
            /\ player'.state = "Stopped"
            /\ video_pos' = (video_pos + 1) % Len(order) /\ order' = order
            /\ ads_remaining > 0 /\ ads_remaining' = ads_remaining - 1
            /\ movie_index' = movie_index /\ next_break_index' = next_break_index
            /\ saved_pos_ms' = saved_pos_ms /\ movie_media' = movie_media
       /\ (pc = "ads" /\ ByControllerThread /\ ads_remaining > 0) =>
            /\ mode' = "ADS" /\ ads_remaining' \in {ads_remaining, ads_remaining - 1}
            /\ last_step' \in {"ad_load", "ad_missing"}
       /\ (mode = "ADS" /\ mode' = "MOVIE") =>
            /\ ads_remaining = 0 /\ pc = "ads"]_vars

\* the first filler of a break was skipped and the break goes on: the
\* second filler is loaded with two units left
C29_Witness ==
    /\ last_step = "ad_load" /\ mode = "ADS"
    /\ break_log.events = <<break_log.cursor, SequencerCommand, (break_log.cursor + 1) % NumAds>>
    /\ ads_remaining = BreakAds - 1
    /\ player.media = AdMedia(video_files[order[video_pos + 1] + 1])

\* the step takes a shuffle_toggle or a reshuffle from command_queue
TakesShuffleCommand ==
    /\ pc \in {"loop", "ad_wait"} /\ command_queue # <<>>
    /\ Head(command_queue) \in {"shuffle_toggle", "reshuffle"}
    /\ command_queue' = Tail(command_queue)

\* C38 as stated: but for the shuffle toggle and the reshuffle, no step
\* changes the filler list or the order, and the cursor moves only when a
\* filler of a break is consumed, by one step forward, wrapping at the end
\* of the order, together with one unit of ads_remaining; so the cursor is
\* at the start of a break where the break before left it, and a load or an
\* advance of a feature leaves the order and the cursor as they are.
C38_CursorPersists ==
    [][(pc # "setup" /\ ~TakesShuffleCommand) =>
          /\ order' = order /\ video_files' = video_files
          /\ \/ video_pos' = video_pos
             \/ /\ mode = "ADS" /\ pc \in {"ads", "ad_wait", "start_wait"}
                /\ ads_remaining' = ads_remaining - 1
                /\ video_pos' = (video_pos + 1) % Len(order)
          /\ load_attempts' # <<>> => video_pos' = video_pos]_vars

(***************************************************************************)
(* SpecGuide: the projector on a database of NumVideos videos, each with   *)
(* or without a stored duration, with or without its file, in two          *)
(* channels with an empty playlist between them                            *)
(***************************************************************************)
\* a duration that the database holds at the start
StoredSeconds == 60

GuidePlaylists == <<[i \in 1..NumVideos |-> i], <<>>, <<NumVideos>>>>

GuideVideos ==
    [duration : [VideoNames -> {{}, {StoredSeconds}}],
     playlists : {GuidePlaylists},
     on_disk : SUBSET VideoNames]

InitGuide ==
    /\ InitPlayerWith({<<RowOpen>>}, {1}, {FALSE}, {<<1>>}, {FALSE})
    /\ videos \in GuideVideos
    /\ guide = GuideIdle
    /\ xmltv_cache = NoCache
    /\ response = NoResponse

NextGuide ==
    \/ GuideStart
    \/ GuideStep

SpecGuide == InitGuide /\ [][NextGuide]_vars

\* the programmes of channel c, in the order of their emission
RECURSIVE OfChannel(_, _)
OfChannel(ps, c) ==
    IF ps = <<>> THEN <<>>
    ELSE (IF Head(ps).channel = c THEN <<Head(ps)>> ELSE <<>>) \o OfChannel(Tail(ps), c)

\* the walk of channel c is over
ChannelDone(c) == guide.pc = "done" \/ (guide.pc = "walk" /\ guide.playlist > c)

\* C17 as stated: the programmes of a channel with videos start at the
\* schedule start, each starts where the one before stops and stops after
\* it starts, and the last one stops at or after the horizon.
C17_TimelineCoverage ==
    \A c \in 1..Len(videos.playlists) :
        LET ps == OfChannel(guide.programmes, c)
        IN /\ ps # <<>> => ps[1].start = 0
           /\ \A i \in 1..(Len(ps) - 1) : ps[i + 1].start = ps[i].stop
           /\ \A i \in 1..Len(ps) : ps[i].start < ps[i].stop
           /\ (ChannelDone(c) /\ videos.playlists[c] # <<>>) =>
                  ps # <<>> /\ ps[Len(ps)].stop >= GuideHorizon

\* an iteration of the walk
WalkStep == guide.pc = "walk" /\ Len(guide'.programmes) = Len(guide.programmes) + 1

\* the programme of the iteration and its length
Emitted == guide'.programmes[Len(guide'.programmes)]
EmittedSeconds == Emitted.stop - Emitted.start

InMemory(f) == guide.duration_cache[f] # {}
InDatabase(f) == videos.duration[f] # {}

ResolutionFails ==
    /\ ~InMemory(StepFile)
    /\ \/ StepFile \notin videos.on_disk
       \/ Emitted.title = "Error loading video"
       \/ Emitted.probed /\ \A d \in videos'.duration[StepFile] : d <= 0 \/ d = FallbackSeconds

\* C19 as stated: an iteration whose resolution fails emits one programme
\* of the fallback duration and the walk goes on with the next video; the
\* programmes of the other channels are left alone.
C19_FailureGivesFallback ==
    [][(WalkStep /\ ResolutionFails) =>
         /\ EmittedSeconds = FallbackSeconds
         /\ guide'.pc = "walk" =>
               \/ guide'.playlist = guide.playlist /\ guide'.video_index = guide.video_index + 1
               \/ guide'.playlist > guide.playlist /\ guide'.video_index = 0
         /\ \A c \in 1..Len(videos.playlists) :
               c # guide.playlist =>
                   OfChannel(guide'.programmes, c) = OfChannel(guide.programmes, c)]_vars

\* C31: the k-th programme (k = 0, 1, 2, ...) emitted for a channel is the
\* one of the video k mod n of the channel's list of n videos, whatever
\* the durations and the failures of the walk.
C31_CyclicWalk ==
    \A c \in 1..Len(videos.playlists) :
        LET ps == OfChannel(guide.programmes, c)
            vids == videos.playlists[c]
        IN \A k \in 0..(Len(ps) - 1) :
              /\ vids # <<>>
              /\ ps[k + 1].filename = vids[(k % Len(vids)) + 1]

\* the walk of the first channel is over and has gone around its list
\* more than once, an iteration that raised included
C31_Witness ==
    /\ ChannelDone(1)
    /\ Len(OfChannel(guide.programmes, 1)) > 2 * NumVideos
    /\ \E i \in 1..Len(guide.programmes) :
          guide.programmes[i].title = "Error loading video"
    /\ OfChannel(guide.programmes, 1)[NumVideos + 1].filename = GuidePlaylists[1][1]

\* the iterations that cover the horizon when every programme is at least
\* as long as the fallback, the shortest duration a resolution is meant
\* to give
MaxWalkSteps == (GuideHorizon + FallbackSeconds - 1) \div FallbackSeconds

\* C32 as stated: the walk of every channel is over after the iterations
\* that the horizon has room for; every programme starts before the horizon
\* end and only the last programme of a channel stops at or after it.
C32_WalkTerminates ==
    \A c \in 1..Len(videos.playlists) :
        LET ps == OfChannel(guide.programmes, c)
        IN /\ \A i \in 1..Len(ps) : ps[i].start < GuideHorizon
           /\ \A i \in 1..(Len(ps) - 1) : ps[i].stop < GuideHorizon
           /\ Len(ps) <= MaxWalkSteps

\* C39 as stated: every programme stops after it starts, and the cursor of
\* a walk is beyond the start of every programme of its channel.
C39_PositiveDuration ==
    \A i \in 1..Len(guide.programmes) :
        LET p == guide.programmes[i]
        IN /\ p.stop > p.start
           /\ (guide.pc = "walk" /\ p.channel = guide.playlist) => guide.current_time > p.start

\* C40 as stated: after an iteration that went through the probe the
\* database holds for the video the positive duration that the probe
\* reported, which the programme has, or else the fallback, which the
\* programme has; an iteration for a video with a duration in the database
\* makes no probe and leaves the database as it is.
C40_FailedProbeStoresFallback ==
    [][WalkStep =>
         LET f == StepFile
         IN /\ Emitted.probed =>
                 \/ /\ videos'.duration[f] = {FallbackSeconds}
                    /\ EmittedSeconds = FallbackSeconds
                 \/ /\ \E d \in ProbeSeconds : d > 0 /\ videos'.duration[f] = {d}
                    /\ videos'.duration[f] = {EmittedSeconds}
            /\ InDatabase(f) => ~Emitted.probed /\ UNCHANGED videos]_vars

(***************************************************************************)
(* SpecCache: the guide cache of the stream server over refreshes that     *)
(* succeed or fail and guide requests at any moment                        *)
(***************************************************************************)
\* one video with a stored duration and one that is probed, both on disk
CacheVideos ==
    [duration |-> [f \in VideoNames |-> IF f = 1 THEN {StoredSeconds} ELSE {}],
     playlists |-> GuidePlaylists,
     on_disk |-> VideoNames]

InitCache ==
    /\ InitPlayerWith({<<RowOpen>>}, {1}, {FALSE}, {<<1>>}, {FALSE})
    /\ videos = CacheVideos
    /\ guide = GuideIdle
    /\ xmltv_cache = NoCache
    /\ response = NoResponse

NextCache ==
    \/ RefreshStart
    \/ GuideStep
    \/ RefreshFails
    \/ RefreshReturns
    \/ GuideRequest

SpecCache == InitCache /\ [][NextCache]_vars

\* C22: a response to a guide request is the cached document, or "not yet
\* generated" while there is none, and the step changes neither the
\* projector nor the database; xmltv_cache changes only when a refresh
\* returns with the document of its projection, which it stores; a refresh
\* that fails leaves xmltv_cache as it is.
C22_ServedFromCache ==
    /\ [][response' # response =>
            /\ xmltv_cache.content = {} => response' = [status |-> 503, body |-> <<>>]
            /\ \A doc \in xmltv_cache.content : response' = [status |-> 200, body |-> doc]
            /\ UNCHANGED <<guide, videos, xmltv_cache>>]_vars
    /\ [][xmltv_cache' # xmltv_cache =>
            /\ guide.pc = "done" /\ guide'.pc = "idle"
            /\ xmltv_cache'.content = {guide.programmes}]_vars
    /\ [][guide.pc = "done" => guide'.pc \in {"done", "idle"}]_vars
    /\ [][(guide.pc = "done" /\ guide'.pc = "idle") =>
            xmltv_cache'.content = {guide.programmes}]_vars
    /\ [][guide'.pc = "failed" => UNCHANGED xmltv_cache]_vars

\* a document is cached and was served, a later refresh has failed, and the
\* cache and the response still hold that document
C22_Witness ==
    /\ guide.pc = "failed"
    /\ xmltv_cache.content # {}
    /\ response.status = 200 /\ response.body \in xmltv_cache.content

(***************************************************************************)
(* SpecQueue: one feature, skip keys, and room for QueueRoom commands      *)
(***************************************************************************)
SkipCommands == {"movie_next"}

NextQueue ==
    \/ Setup
    \/ KeyEventUpTo(SkipCommands, QueueRoom)
    \/ TimePasses
    \/ MainloopDestroy
    \/ Controller
    \/ Environment

SpecQueue == InitKeys /\ [][NextQueue]_vars

\* C23 as stated, for the capacity QueueRoom - 1: while the controller is
\* inside _start_and_wait, the commands that were accepted and not yet
\* consumed never fill the room the model gives them.
C23_QueueBounded == pc = "start_wait" => Len(command_queue) < QueueRoom

(***************************************************************************)
(* SpecChannel: one feature, one filler, two keys that the two loops of    *)
(* the controller treat differently, and room for QueueRoom commands       *)
(***************************************************************************)
ChannelCommands == {"next", "movie_next"}

NextChannel ==
    \/ Setup
    \/ KeyEventUpTo(ChannelCommands, QueueRoom)
    \/ TimePasses
    \/ MainloopDestroy
    \/ Controller
    \/ Environment

SpecChannel == InitKeys /\ [][NextChannel]_vars

\* an iteration of the outer loop or of the wait loop of a filler, the two
\* places where the controller calls command_queue.get
Polls == pc \in {"loop", "ad_wait"} /\ ByControllerThread

InitAdvance == InitWith({Features(NumMovies + 1)}, {1}, {FALSE}, {<<1>>}, {FALSE})

QueueCommands == {"movie_next", "movie_prev"}

NextAdvance ==
    \/ Setup
    \/ KeyEvent(QueueCommands)
    \/ TimePasses
    \/ MainloopDestroy
    \/ Controller
    \/ Environment

SpecAdvance == InitAdvance /\ [][NextAdvance]_vars

\* the distances k in 1..n at which the feature (i + dir * k) mod n has its
\* file among files
Loadable(i, dir, files) == {k \in 1..Len(db) : ((i + dir * k) % Len(db)) \in files}

\* R is the outcome of an advance in direction dir, made in the current
\* state with the files files
AdvanceOutcome(R, dir, files) ==
    IF Loadable(movie_index, dir, files) = {}
    THEN /\ ~R.ok
         /\ R.movie_index = movie_index
         /\ R.movie_media = movie_media /\ R.breaks_ms = breaks_ms
    ELSE /\ R.ok
         /\ R.movie_index =
               (movie_index + dir * SetMin(Loadable(movie_index, dir, files))) % Len(db)
         /\ R.movie_media = MovieMedia(R.movie_index)
         /\ R.next_break_index = 0

\* C24: in every reachable state in which the controller is at the head of
\* its loop or in a break, and for every set of files on disk,
\* advance_to_next_movie loads the feature at the smallest distance k in
\* 1..n forward whose file exists (k = n is the current one) and sets the
\* index to it; it fails exactly when no file exists and then leaves the
\* index where it was.  advance_to_prev_movie does the same backward.
C24_AdvanceFindsNearest ==
    pc \in {"loop", "ads"} => \A files \in FileChoices :
        /\ AdvanceOutcome(AdvanceToNextMovie([Cur EXCEPT !.files = files]), 1, files)
        /\ AdvanceOutcome(AdvanceToPrevMovie([Cur EXCEPT !.files = files]), -1, files)

\* a step back has tried the n - 1 other features in descending order in
\* vain and has loaded the current feature again
C24_Witness ==
    /\ last_step = "advance" /\ Len(db) >= 3
    /\ \E k \in 1..Len(load_attempts) :
          /\ Len(load_attempts[k]) = Len(db)
          /\ load_attempts[k][1] = <<(movie_index + Len(db) - 1) % Len(db), FALSE>>
          /\ load_attempts[k][Len(db)] = <<movie_index, TRUE>>

(***************************************************************************)
(* SpecPassed: two features with two breakpoints each, one of them with a  *)
(* window end, and no key: the position may pass both breakpoints between  *)
(* two ticks                                                               *)
(***************************************************************************)
InitPassed == InitWith({<<RowTwoBreaks, RowWindow>>}, {1}, {FALSE}, {<<1>>}, {FALSE})

NextPassed ==
    \/ Setup
    \/ MainloopDestroy
    \/ Controller
    \/ Environment

SpecPassed == InitPassed /\ [][NextPassed]_vars

\* the breakpoint at the cursor was already passed when the last break fired
PassedWaiting ==
    /\ next_break_index \in 1..(Len(breaks_ms) - 1)
    /\ breaks_ms[next_break_index + 1] <= saved_pos_ms

\* C27 as stated (one consequence): a break that fired with another passed
\* breakpoint waiting ends with the resume of the feature.
C27_AsStated ==
    [][(EndOfBreak /\ PassedWaiting) => StaysOnFeature]_vars

\* C27 (amended): a step that starts a break consumes exactly the
\* breakpoint at the cursor, which is above all that fired since the load,
\* and sets ads_remaining to ads_per_break, however many breakpoints the
\* position has passed; when the break ends with a passed breakpoint
\* waiting, the feature is resumed unless the resume target is at or beyond
\* the window end, in which case the controller advances; on a tick of the
\* resumed feature with the position at or beyond the waiting breakpoint
\* and below the window end, that breakpoint starts its own break.
C27_OneBreakPerTick ==
    [][/\ last_step' = "fire" =>
            /\ next_break_index' = next_break_index + 1
            /\ ads_remaining' = ads_per_break /\ mode' = "ADS"
            /\ saved_pos_ms' = player.time
            /\ fired_since_load' = fired_since_load \cup {breaks_ms[next_break_index + 1]}
            /\ \A b \in fired_since_load : b < breaks_ms[next_break_index + 1]
       /\ (EndOfBreak /\ PassedWaiting) =>
            IF \E e \in movie_state.end_ms : ResumeTarget >= e
            THEN Advances
            ELSE StaysOnFeature /\ after' = "resume"
       /\ (Tick /\ PassedWaiting /\ BreakReached /\ BelowWindowEnd) =>
            last_step' = "fire"]_vars

\* the first break has fired alone at a position beyond both breakpoints
\* and has ended, the feature is resumed beyond them with the cursor at the
\* second one, which the next tick will fire
C27_Witness ==
    /\ last_step = "resumed" /\ pc = "loop"
    /\ next_break_index = 1 /\ Len(breaks_ms) = 2
    /\ breaks_ms[2] <= saved_pos_ms
    /\ seek_arg = saved_pos_ms + ResumeEpsilon
    /\ player.time >= breaks_ms[2] /\ player.state = "Playing"

(***************************************************************************)
(* SpecMissing: one feature with a window, NumAds fillers whose files are  *)
(* there or not at each step of a break, MaxAdsPerBreak fillers to a break *)
(***************************************************************************)
InitMissing ==
    InitWith({<<RowWindow>>}, {MaxAdsPerBreak}, {FALSE}, {FillerList(NumAds)}, {TRUE})

SpecMissing == InitMissing /\ [][NextPassed]_vars

\* no filler of the running break had its file
AllMissing == \A i \in 1..Len(break_log.events) : break_log.events[i] = MissingAd

\* the step skips a missing filler: nothing is loaded into the engine, one
\* unit of ads_remaining is consumed and the cursor moves on by one
SkipsMissing ==
    /\ pc = "ads" /\ pc' = "ads"
    /\ player' = player /\ engine_callers' = engine_callers
    /\ ads_remaining > 0 /\ ads_remaining' = ads_remaining - 1
    /\ video_pos' = (video_pos + 1) % Len(order)
    /\ order' = order /\ mode' = "ADS"
    /\ break_log'.events = Append(break_log.events, MissingAd)

IntLit(n) == [kind |-> "int", ms |-> n * 1000]
FracLit(ms) == [kind |-> "frac", ms |-> ms]
BadLit == [kind |-> "bad", ms |-> 0]
InfLit == [kind |-> "inf", ms |-> 0]

\* "5", "0:12.5", "0:0:20", "1:30"
GoodTokens ==
    {<<IntLit(5)>>, <<IntLit(0), FracLit(12500)>>,
     <<IntLit(0), IntLit(0), IntLit(20)>>, <<IntLit(1), IntLit(30)>>}

\* "", "abc", "1:xx", "1.5:20", "1:2:3:4", "x:0:5", "inf:5", "inf", "0:inf"
BrokenTokens ==
    {NoToken, <<BadLit>>, <<IntLit(1), BadLit>>, <<FracLit(1500), IntLit(20)>>,
     <<IntLit(1), IntLit(2), IntLit(3), IntLit(4)>>,
     <<BadLit, IntLit(0), IntLit(5)>>, <<InfLit, IntLit(5)>>,
     <<InfLit>>, <<IntLit(0), InfLit>>}

\* the rows: no window, up to MaxTokens break tokens, at most one of
\* them broken
MaxTokens == 3

RECURSIVE GoodLists(_)
GoodLists(n) ==
    IF n = 0 THEN {<<>>}
    ELSE LET shorter == GoodLists(n - 1)
         IN shorter \cup {Append(l, t) : l \in {x \in shorter : Len(x) = n - 1}, t \in GoodTokens}

TokenRows ==
    {[start_time |-> NoToken, end_time |-> NoToken, length |-> Pos(1),
      breaks |-> [i \in 1..Len(l) |-> IF i = at THEN t ELSE l[i]]] :
        l \in GoodLists(MaxTokens), at \in 0..MaxTokens, t \in BrokenTokens}

InitTokens == InitWith({<<r>> : r \in TokenRows}, {1}, {FALSE}, {<<1>>}, {FALSE})

NextTokens ==
    \/ Setup
    \/ ControllerInit

SpecTokens == InitTokens /\ [][NextTokens]_vars

\* a token denotes a time: one to three fields, the last a number and the
\* ones before it integers
DenotesTime(tok) ==
    /\ Len(tok) \in 1..3
    /\ tok[Len(tok)].kind \in {"int", "frac"}
    /\ \A i \in 1..(Len(tok) - 1) : tok[i].kind = "int"

\* the milliseconds that a token which denotes a time stands for
RECURSIVE TokenMs(_)
TokenMs(tok) ==
    IF Len(tok) = 1 THEN tok[1].ms
    ELSE 60 * TokenMs(SubSeq(tok, 1, Len(tok) - 1)) + tok[Len(tok)].ms

\* C21 as stated: when load_movie has taken the feature, breaks_ms holds
\* exactly the offsets of the row's tokens that denote a time; every other
\* token is dropped.
C21_UnparseableDropped ==
    movie_media # NoMedia =>
        Range(breaks_ms) = {TokenMs(t) : t \in {x \in Range(db[1].breaks) : DenotesTime(x)}}

(***************************************************************************)
(* SpecNorm: the timestamp normalizer and the break filter of load_movie   *)
(* over the rows the persistence layer can hold for one feature: the       *)
(* controller loads the feature and the run ends there.                    *)
(***************************************************************************)
\* the tokens of the rows: plain seconds, given in ms, and a text
NormOffsets == {5000, 12000, 20000}
NormTokens == {Tok(b) : b \in NormOffsets} \cup {BadToken}

\* the lists of at most n tokens
RECURSIVE TokenLists(_)
TokenLists(n) ==
    IF n = 0 THEN {<<>>}
    ELSE LET shorter == TokenLists(n - 1)
         IN shorter \cup {Append(l, t) : l \in {x \in shorter : Len(x) = n - 1}, t \in NormTokens}

NormRows ==
    [start_time : {NoToken, Tok(0), Tok(12000)},
     end_time   : {NoToken, Tok(5000), Tok(15000)},
     breaks     : TokenLists(MaxRawBreaks),
     length     : {Pos(1)}]

InitNorm == InitWith({<<r>> : r \in NormRows}, {1}, {FALSE}, {<<1>>}, {FALSE})

NextNorm ==
    \/ Setup
    \/ ControllerInit

SpecNorm == InitNorm /\ [][NextNorm]_vars

\* the offsets, the window start and the window end that the row of the
\* loaded feature holds, read off the tokens
RowOffsets == {t[1].ms : t \in {x \in Range(db[movie_index + 1].breaks) : x[1].kind # "bad"}}
RowStart == IF db[movie_index + 1].start_time = NoToken THEN 0
            ELSE db[movie_index + 1].start_time[1].ms
RowEnd == IF db[movie_index + 1].end_time = NoToken THEN {}
          ELSE {db[movie_index + 1].end_time[1].ms}

Normalise(bs, start_ms, end_ms) ==
    InstalledBreaks([start_ms |-> start_ms, end_ms |-> end_ms,
                     breaks |-> SortedSet(Range(bs))])

\* C20: the normalisation applied to the installed breaks_ms, with the
\* window of the loaded feature, gives breaks_ms again.
C20_FilterIdempotent ==
    movie_media # NoMedia =>
        Normalise(breaks_ms, movie_state.start_ms, movie_state.end_ms) = breaks_ms

\* a row stored in descending order with a duplicate and an offset below the
\* window start, without window end
C20_Witness ==
    /\ movie_media # NoMedia
    /\ db[1].breaks = <<Tok(20000), Tok(12000), Tok(5000), Tok(12000)>>
    /\ db[1].start_time = Tok(12000) /\ db[1].end_time = NoToken
    /\ breaks_ms = <<12000, 20000>>
    /\ movie_state = [start_ms |-> 12000, end_ms |-> {}]

=============================================================================
